---------------------------- MODULE Spec2Model ----------------------------
(***************************************************************************)
(* Kernel-selection and accuracy-tracking dispatch layer of cuMpSGEMM:     *)
(* module registration (cuMpSGEMM_create), signature derivation            *)
(* (gen_module_code), variant selection and launch orchestration           *)
(* (cumpsgemm::gemm, cumpsgemm::gemm_stridedBatch), the statistics ring    *)
(* and the ordered device queue (cuda_stream) the work is issued to.       *)
(***************************************************************************)
EXTENDS Integers, Sequences, FiniteSets, TLC

(* ------------------------------ bounds -------------------------------- *)
\* number of public calls explored on one handle
MaxCalls == 3
\* longest strided batch explored (batch_count ranges over 0..MaxBatch)
MaxBatch == 2
\* number of slots of the statistics ring (buffer_length of the handle)
RingSize == 2
\* most device operations still waiting on the stream when the host issues a call
MaxPending == 1

(* --------------------------- input domains ---------------------------- *)
\* (m, n) shapes: below the occupancy threshold, above it, exactly at the
\* large-problem cutoff m*n = 2^24, and above the cutoff
Shapes == { <<64, 64>>, <<64, 4096>>, <<4096, 4096>>, <<4096, 8192>> }
\* multiprocessor counts of the device the handle is created on
NumSMs == {1, 2}
\* cublasOperation_t
CUBLAS_OPS == {"CUBLAS_OP_N", "CUBLAS_OP_T", "CUBLAS_OP_C"}
\* the four reduced-precision compute modes
TC_MODES == {"CUMPSGEMM_FP16TC", "CUMPSGEMM_FP16TCEC", "CUMPSGEMM_TF32TC", "CUMPSGEMM_TF32TCEC"}
\* cuMpSGEMM_compute_mode_t values a caller can pass
COMPUTE_MODES == TC_MODES \cup {"CUMPSGEMM_CUBLAS", "CUMPSGEMM_AUTO"}
\* element kinds (template parameter T)
ELEMENT_TYPES == {"float", "cuComplex"}
\* counter pointers: nullptr, and the address buffer + buffer_id of a ring slot
NULLPTR == <<>>
\* the counter pointer of the slot after buffer_id
CounterPtr_off_by_one(buffer_id) == <<buffer_id + 1>>
\* the address buffer + buffer_id
CounterPtr(buffer_id) == <<buffer_id>>

(* ------------------------- kernel module codes ------------------------ *)
\* cumpsgemm::kernel_module_code: disjoint bit-fields
\*   bits 0-1 op_a, bits 2-3 op_b, bit 4 tensor-core type, bit 5 ec, bit 6 kind
kernel_module_code ==
  [ op_a_col_major |-> 1,  op_a_row_major |-> 2,  op_a_conjugate |-> 3,
    op_b_col_major |-> 4,  op_b_row_major |-> 8,  op_b_conjugate |-> 12,
    half           |-> 0,  tf32           |-> 16,
    with_ec        |-> 0,  without_ec     |-> 32,
    s              |-> 0,  c              |-> 64,
    max_code       |-> 128 ]

\* stages kept per signature
num_kernel_candidates == 2

\* bitwise OR on naturals (operator | of code_t)
RECURSIVE BitOr(_, _)
BitOr(a, b) ==
  IF a = 0 THEN b
  ELSE IF b = 0 THEN a
  ELSE (IF a % 2 = 1 \/ b % 2 = 1 THEN 1 ELSE 0) + 2 * BitOr(a \div 2, b \div 2)

\* gen_module_code with the conjugate case of op_A taking the transposed code
gen_module_code_conj_as_trans(T, op_A, op_B, compute_mode) ==
  BitOr(BitOr(BitOr(
          CASE compute_mode = "CUMPSGEMM_FP16TC"   -> BitOr(kernel_module_code.half, kernel_module_code.without_ec)
            [] compute_mode = "CUMPSGEMM_FP16TCEC" -> BitOr(kernel_module_code.half, kernel_module_code.with_ec)
            [] compute_mode = "CUMPSGEMM_TF32TC"   -> BitOr(kernel_module_code.tf32, kernel_module_code.without_ec)
            [] compute_mode = "CUMPSGEMM_TF32TCEC" -> BitOr(kernel_module_code.tf32, kernel_module_code.with_ec)
            [] OTHER -> 0,
          CASE op_A = "CUBLAS_OP_N" -> kernel_module_code.op_a_col_major
            [] op_A = "CUBLAS_OP_T" -> kernel_module_code.op_a_row_major
            [] op_A = "CUBLAS_OP_C" -> kernel_module_code.op_a_row_major
            [] OTHER -> 0),
          CASE op_B = "CUBLAS_OP_N" -> kernel_module_code.op_b_col_major
            [] op_B = "CUBLAS_OP_T" -> kernel_module_code.op_b_row_major
            [] op_B = "CUBLAS_OP_C" -> kernel_module_code.op_b_conjugate
            [] OTHER -> 0),
        CASE T = "float" -> kernel_module_code.s
          [] T = "cuComplex" -> kernel_module_code.c
          [] OTHER -> 0)

\* gen_module_code<T>(op_A, op_B, compute_mode): code starts at 0 and each switch
\* ORs its field into it; a value no case names leaves the code as it is
gen_module_code(T, op_A, op_B, compute_mode) ==
  BitOr(BitOr(BitOr(
          CASE compute_mode = "CUMPSGEMM_FP16TC"   -> BitOr(kernel_module_code.half, kernel_module_code.without_ec)
            [] compute_mode = "CUMPSGEMM_FP16TCEC" -> BitOr(kernel_module_code.half, kernel_module_code.with_ec)
            [] compute_mode = "CUMPSGEMM_TF32TC"   -> BitOr(kernel_module_code.tf32, kernel_module_code.without_ec)
            [] compute_mode = "CUMPSGEMM_TF32TCEC" -> BitOr(kernel_module_code.tf32, kernel_module_code.with_ec)
            [] OTHER -> 0,
          CASE op_A = "CUBLAS_OP_N" -> kernel_module_code.op_a_col_major
            [] op_A = "CUBLAS_OP_T" -> kernel_module_code.op_a_row_major
            [] op_A = "CUBLAS_OP_C" -> kernel_module_code.op_a_conjugate
            [] OTHER -> 0),
          CASE op_B = "CUBLAS_OP_N" -> kernel_module_code.op_b_col_major
            [] op_B = "CUBLAS_OP_T" -> kernel_module_code.op_b_row_major
            [] op_B = "CUBLAS_OP_C" -> kernel_module_code.op_b_conjugate
            [] OTHER -> 0),
        CASE T = "float" -> kernel_module_code.s
          [] T = "cuComplex" -> kernel_module_code.c
          [] OTHER -> 0)

(* --------------------------- module tables ---------------------------- *)
\* an array element no registration has written
UnsetModule ==
  [ kernel_func |-> <<"unset">>, smem_m |-> 0, smem_n |-> 0, smem_k |-> 0, block_size |-> 0 ]

\* the descriptor with the tile rows of stage 0 doubled
generate_gemm_module_stage0_wide(table, r) ==
  [ kernel_func |-> <<table, r[1], r[2], r[3], r[4], r[5], r[9], r[10], r[11]>>,
    smem_m |-> IF r[14] = 0 THEN 2 * r[6] ELSE r[6],
    smem_n |-> r[7], smem_k |-> r[8], block_size |-> r[12] ]

\* cumpsgemm::generate_gemm_module<...>() / generate_gemm_stridedBatch_module<...>():
\* the descriptor of one compiled kernel; kernel_func is the kernel instantiated
\* for <io_t, smem_m, smem_n, smem_k, frag_m, frag_n, frag_k, block_size, op_a, op_b, tc_t, ec>
generate_gemm_module(table, r) ==
  [ kernel_func |-> <<table, r[1], r[2], r[3], r[4], r[5], r[9], r[10], r[11]>>,
    smem_m |-> r[6], smem_n |-> r[7], smem_k |-> r[8], block_size |-> r[12] ]

\* the index expression with the gemm_type field left out
registration_code_no_type(r) ==
  BitOr(BitOr(BitOr(kernel_module_code[r[2]], kernel_module_code[r[3]]),
              kernel_module_code["op_a_" \o r[4]]),
        kernel_module_code["op_b_" \o r[5]])

\* index expression of SET_GEMM_KERNEL_MODULE / SET_GEMM_STRIDEDBATCH_KERNEL_MODULE:
\*   tc_t | ec | op_a_##op_a | op_b_##op_b | gemm_type
registration_code(r) ==
  BitOr(BitOr(BitOr(BitOr(kernel_module_code[r[2]], kernel_module_code[r[3]]),
                    kernel_module_code["op_a_" \o r[4]]),
              kernel_module_code["op_b_" \o r[5]]),
        kernel_module_code[r[13]])

\* the macro invocations of cuMpSGEMM_create in source order, one tuple per line:
\*   <<io_t, tc_t, ec, op_a, op_b, smem_m, smem_n, smem_k, frag_m, frag_n, frag_k, block_size, gemm_type, stage>>
gemm_registrations ==
  << <<"float", "half", "with_ec", "col_major", "col_major", 64, 64, 32, 32, 32, 16, 128, "s", 0>>,
     <<"float", "half", "with_ec", "col_major", "col_major", 64, 64, 32, 32, 32, 16, 128, "s", 1>>,
     <<"float", "tf32", "with_ec", "col_major", "col_major", 64, 64, 32, 32, 32, 16, 128, "s", 0>>,
     <<"float", "tf32", "with_ec", "col_major", "col_major", 64, 64, 32, 32, 32, 16, 128, "s", 1>>,
     <<"float", "half", "without_ec", "col_major", "col_major", 64, 64, 32, 32, 32, 16, 128, "s", 0>>,
     <<"float", "half", "without_ec", "col_major", "col_major", 64, 64, 32, 32, 32, 16, 128, "s", 1>>,
     <<"float", "tf32", "without_ec", "col_major", "col_major", 64, 64, 32, 32, 32, 16, 128, "s", 0>>,
     <<"float", "tf32", "without_ec", "col_major", "col_major", 64, 64, 32, 32, 32, 16, 128, "s", 1>>,
     <<"float", "half", "with_ec", "row_major", "col_major", 64, 64, 32, 32, 32, 16, 128, "s", 0>>,
     <<"float", "half", "with_ec", "row_major", "col_major", 64, 64, 32, 32, 32, 16, 128, "s", 1>>,
     <<"float", "tf32", "with_ec", "row_major", "col_major", 64, 64, 32, 32, 32, 16, 128, "s", 0>>,
     <<"float", "tf32", "with_ec", "row_major", "col_major", 64, 64, 32, 32, 32, 16, 128, "s", 1>>,
     <<"float", "half", "without_ec", "row_major", "col_major", 64, 64, 32, 32, 32, 16, 128, "s", 0>>,
     <<"float", "half", "without_ec", "row_major", "col_major", 64, 64, 32, 32, 32, 16, 128, "s", 1>>,
     <<"float", "tf32", "without_ec", "row_major", "col_major", 64, 64, 32, 32, 32, 16, 128, "s", 0>>,
     <<"float", "tf32", "without_ec", "row_major", "col_major", 64, 64, 32, 32, 32, 16, 128, "s", 1>>,
     <<"float", "half", "with_ec", "col_major", "row_major", 64, 64, 32, 32, 32, 16, 128, "s", 0>>,
     <<"float", "half", "with_ec", "col_major", "row_major", 64, 64, 32, 32, 32, 16, 128, "s", 1>>,
     <<"float", "tf32", "with_ec", "col_major", "row_major", 64, 64, 32, 32, 32, 16, 128, "s", 0>>,
     <<"float", "tf32", "with_ec", "col_major", "row_major", 64, 64, 32, 32, 32, 16, 128, "s", 1>>,
     <<"float", "half", "without_ec", "col_major", "row_major", 64, 64, 32, 32, 32, 16, 128, "s", 0>>,
     <<"float", "half", "without_ec", "col_major", "row_major", 64, 64, 32, 32, 32, 16, 128, "s", 1>>,
     <<"float", "tf32", "without_ec", "col_major", "row_major", 64, 64, 32, 32, 32, 16, 128, "s", 0>>,
     <<"float", "tf32", "without_ec", "col_major", "row_major", 64, 64, 32, 32, 32, 16, 128, "s", 1>>,
     <<"float", "half", "with_ec", "row_major", "row_major", 64, 64, 32, 32, 32, 16, 128, "s", 0>>,
     <<"float", "half", "with_ec", "row_major", "row_major", 64, 64, 32, 32, 32, 16, 128, "s", 1>>,
     <<"float", "tf32", "with_ec", "row_major", "row_major", 64, 64, 32, 32, 32, 16, 128, "s", 0>>,
     <<"float", "tf32", "with_ec", "row_major", "row_major", 64, 64, 32, 32, 32, 16, 128, "s", 1>>,
     <<"float", "half", "without_ec", "row_major", "row_major", 64, 64, 32, 32, 32, 16, 128, "s", 0>>,
     <<"float", "half", "without_ec", "row_major", "row_major", 64, 64, 32, 32, 32, 16, 128, "s", 1>>,
     <<"float", "tf32", "without_ec", "row_major", "row_major", 64, 64, 32, 32, 32, 16, 128, "s", 0>>,
     <<"float", "tf32", "without_ec", "row_major", "row_major", 64, 64, 32, 32, 32, 16, 128, "s", 1>>,
     <<"cuComplex", "half", "with_ec", "col_major", "col_major", 64, 64, 32, 32, 32, 16, 128, "c", 0>>,
     <<"cuComplex", "half", "with_ec", "col_major", "col_major", 64, 64, 32, 32, 32, 16, 128, "c", 1>>,
     <<"cuComplex", "tf32", "with_ec", "col_major", "col_major", 64, 64, 32, 32, 32, 16, 128, "c", 0>>,
     <<"cuComplex", "tf32", "with_ec", "col_major", "col_major", 64, 64, 32, 32, 32, 16, 128, "c", 1>>,
     <<"cuComplex", "half", "without_ec", "col_major", "col_major", 64, 64, 32, 32, 32, 16, 128, "c", 0>>,
     <<"cuComplex", "half", "without_ec", "col_major", "col_major", 64, 64, 32, 32, 32, 16, 128, "c", 1>>,
     <<"cuComplex", "tf32", "without_ec", "col_major", "col_major", 64, 64, 32, 32, 32, 16, 128, "c", 0>>,
     <<"cuComplex", "tf32", "without_ec", "col_major", "col_major", 64, 64, 32, 32, 32, 16, 128, "c", 1>>,
     <<"cuComplex", "half", "with_ec", "row_major", "col_major", 64, 64, 32, 32, 32, 16, 128, "c", 0>>,
     <<"cuComplex", "half", "with_ec", "row_major", "col_major", 64, 64, 32, 32, 32, 16, 128, "c", 1>>,
     <<"cuComplex", "tf32", "with_ec", "row_major", "col_major", 64, 64, 32, 32, 32, 16, 128, "c", 0>>,
     <<"cuComplex", "tf32", "with_ec", "row_major", "col_major", 64, 64, 32, 32, 32, 16, 128, "c", 1>>,
     <<"cuComplex", "half", "without_ec", "row_major", "col_major", 64, 64, 32, 32, 32, 16, 128, "c", 0>>,
     <<"cuComplex", "half", "without_ec", "row_major", "col_major", 64, 64, 32, 32, 32, 16, 128, "c", 1>>,
     <<"cuComplex", "tf32", "without_ec", "row_major", "col_major", 64, 64, 32, 32, 32, 16, 128, "c", 0>>,
     <<"cuComplex", "tf32", "without_ec", "row_major", "col_major", 64, 64, 32, 32, 32, 16, 128, "c", 1>>,
     <<"cuComplex", "half", "with_ec", "conjugate", "col_major", 64, 64, 32, 32, 32, 16, 128, "c", 0>>,
     <<"cuComplex", "half", "with_ec", "conjugate", "col_major", 64, 64, 32, 32, 32, 16, 128, "c", 1>>,
     <<"cuComplex", "tf32", "with_ec", "conjugate", "col_major", 64, 64, 32, 32, 32, 16, 128, "c", 0>>,
     <<"cuComplex", "tf32", "with_ec", "conjugate", "col_major", 64, 64, 32, 32, 32, 16, 128, "c", 1>>,
     <<"cuComplex", "half", "without_ec", "conjugate", "col_major", 64, 64, 32, 32, 32, 16, 128, "c", 0>>,
     <<"cuComplex", "half", "without_ec", "conjugate", "col_major", 64, 64, 32, 32, 32, 16, 128, "c", 1>>,
     <<"cuComplex", "tf32", "without_ec", "conjugate", "col_major", 64, 64, 32, 32, 32, 16, 128, "c", 0>>,
     <<"cuComplex", "tf32", "without_ec", "conjugate", "col_major", 64, 64, 32, 32, 32, 16, 128, "c", 1>>,
     <<"cuComplex", "half", "with_ec", "col_major", "row_major", 64, 64, 32, 32, 32, 16, 128, "c", 0>>,
     <<"cuComplex", "half", "with_ec", "col_major", "row_major", 64, 64, 32, 32, 32, 16, 128, "c", 1>>,
     <<"cuComplex", "tf32", "with_ec", "col_major", "row_major", 64, 64, 32, 32, 32, 16, 128, "c", 0>>,
     <<"cuComplex", "tf32", "with_ec", "col_major", "row_major", 64, 64, 32, 32, 32, 16, 128, "c", 1>>,
     <<"cuComplex", "half", "without_ec", "col_major", "row_major", 64, 64, 32, 32, 32, 16, 128, "c", 0>>,
     <<"cuComplex", "half", "without_ec", "col_major", "row_major", 64, 64, 32, 32, 32, 16, 128, "c", 1>>,
     <<"cuComplex", "tf32", "without_ec", "col_major", "row_major", 64, 64, 32, 32, 32, 16, 128, "c", 0>>,
     <<"cuComplex", "tf32", "without_ec", "col_major", "row_major", 64, 64, 32, 32, 32, 16, 128, "c", 1>>,
     <<"cuComplex", "half", "with_ec", "row_major", "row_major", 64, 64, 32, 32, 32, 16, 128, "c", 0>>,
     <<"cuComplex", "half", "with_ec", "row_major", "row_major", 64, 64, 32, 32, 32, 16, 128, "c", 1>>,
     <<"cuComplex", "tf32", "with_ec", "row_major", "row_major", 64, 64, 32, 32, 32, 16, 128, "c", 0>>,
     <<"cuComplex", "tf32", "with_ec", "row_major", "row_major", 64, 64, 32, 32, 32, 16, 128, "c", 1>>,
     <<"cuComplex", "half", "without_ec", "row_major", "row_major", 64, 64, 32, 32, 32, 16, 128, "c", 0>>,
     <<"cuComplex", "half", "without_ec", "row_major", "row_major", 64, 64, 32, 32, 32, 16, 128, "c", 1>>,
     <<"cuComplex", "tf32", "without_ec", "row_major", "row_major", 64, 64, 32, 32, 32, 16, 128, "c", 0>>,
     <<"cuComplex", "tf32", "without_ec", "row_major", "row_major", 64, 64, 32, 32, 32, 16, 128, "c", 1>>,
     <<"cuComplex", "half", "with_ec", "conjugate", "row_major", 64, 64, 32, 32, 32, 16, 128, "c", 0>>,
     <<"cuComplex", "half", "with_ec", "conjugate", "row_major", 64, 64, 32, 32, 32, 16, 128, "c", 1>>,
     <<"cuComplex", "tf32", "with_ec", "conjugate", "row_major", 64, 64, 32, 32, 32, 16, 128, "c", 0>>,
     <<"cuComplex", "tf32", "with_ec", "conjugate", "row_major", 64, 64, 32, 32, 32, 16, 128, "c", 1>>,
     <<"cuComplex", "half", "without_ec", "conjugate", "row_major", 64, 64, 32, 32, 32, 16, 128, "c", 0>>,
     <<"cuComplex", "half", "without_ec", "conjugate", "row_major", 64, 64, 32, 32, 32, 16, 128, "c", 1>>,
     <<"cuComplex", "tf32", "without_ec", "conjugate", "row_major", 64, 64, 32, 32, 32, 16, 128, "c", 0>>,
     <<"cuComplex", "tf32", "without_ec", "conjugate", "row_major", 64, 64, 32, 32, 32, 16, 128, "c", 1>>,
     <<"cuComplex", "half", "with_ec", "col_major", "conjugate", 64, 64, 32, 32, 32, 16, 128, "c", 0>>,
     <<"cuComplex", "half", "with_ec", "col_major", "conjugate", 64, 64, 32, 32, 32, 16, 128, "c", 1>>,
     <<"cuComplex", "tf32", "with_ec", "col_major", "conjugate", 64, 64, 32, 32, 32, 16, 128, "c", 0>>,
     <<"cuComplex", "tf32", "with_ec", "col_major", "conjugate", 64, 64, 32, 32, 32, 16, 128, "c", 1>>,
     <<"cuComplex", "half", "without_ec", "col_major", "conjugate", 64, 64, 32, 32, 32, 16, 128, "c", 0>>,
     <<"cuComplex", "half", "without_ec", "col_major", "conjugate", 64, 64, 32, 32, 32, 16, 128, "c", 1>>,
     <<"cuComplex", "tf32", "without_ec", "col_major", "conjugate", 64, 64, 32, 32, 32, 16, 128, "c", 0>>,
     <<"cuComplex", "tf32", "without_ec", "col_major", "conjugate", 64, 64, 32, 32, 32, 16, 128, "c", 1>>,
     <<"cuComplex", "half", "with_ec", "row_major", "conjugate", 64, 64, 32, 32, 32, 16, 128, "c", 0>>,
     <<"cuComplex", "half", "with_ec", "row_major", "conjugate", 64, 64, 32, 32, 32, 16, 128, "c", 1>>,
     <<"cuComplex", "tf32", "with_ec", "row_major", "conjugate", 64, 64, 32, 32, 32, 16, 128, "c", 0>>,
     <<"cuComplex", "tf32", "with_ec", "row_major", "conjugate", 64, 64, 32, 32, 32, 16, 128, "c", 1>>,
     <<"cuComplex", "half", "without_ec", "row_major", "conjugate", 64, 64, 32, 32, 32, 16, 128, "c", 0>>,
     <<"cuComplex", "half", "without_ec", "row_major", "conjugate", 64, 64, 32, 32, 32, 16, 128, "c", 1>>,
     <<"cuComplex", "tf32", "without_ec", "row_major", "conjugate", 64, 64, 32, 32, 32, 16, 128, "c", 0>>,
     <<"cuComplex", "tf32", "without_ec", "row_major", "conjugate", 64, 64, 32, 32, 32, 16, 128, "c", 1>>,
     <<"cuComplex", "half", "with_ec", "conjugate", "conjugate", 64, 64, 32, 32, 32, 16, 128, "c", 0>>,
     <<"cuComplex", "half", "with_ec", "conjugate", "conjugate", 64, 64, 32, 32, 32, 16, 128, "c", 1>>,
     <<"cuComplex", "tf32", "with_ec", "conjugate", "conjugate", 64, 64, 32, 32, 32, 16, 128, "c", 0>>,
     <<"cuComplex", "tf32", "with_ec", "conjugate", "conjugate", 64, 64, 32, 32, 32, 16, 128, "c", 1>>,
     <<"cuComplex", "half", "without_ec", "conjugate", "conjugate", 64, 64, 32, 32, 32, 16, 128, "c", 0>>,
     <<"cuComplex", "half", "without_ec", "conjugate", "conjugate", 64, 64, 32, 32, 32, 16, 128, "c", 1>>,
     <<"cuComplex", "tf32", "without_ec", "conjugate", "conjugate", 64, 64, 32, 32, 32, 16, 128, "c", 0>>,
     <<"cuComplex", "tf32", "without_ec", "conjugate", "conjugate", 64, 64, 32, 32, 32, 16, 128, "c", 1>> >>

gemm_stridedBatch_registrations ==
  << <<"float", "half", "with_ec", "col_major", "col_major", 64, 64, 32, 32, 32, 16, 128, "s", 0>>,
     <<"float", "half", "with_ec", "col_major", "col_major", 64, 64, 32, 32, 32, 16, 128, "s", 1>>,
     <<"float", "tf32", "with_ec", "col_major", "col_major", 64, 64, 32, 32, 32, 16, 128, "s", 0>>,
     <<"float", "tf32", "with_ec", "col_major", "col_major", 64, 64, 32, 32, 32, 16, 128, "s", 1>>,
     <<"float", "half", "without_ec", "col_major", "col_major", 64, 64, 32, 32, 32, 16, 128, "s", 0>>,
     <<"float", "half", "without_ec", "col_major", "col_major", 64, 64, 32, 32, 32, 16, 128, "s", 1>>,
     <<"float", "tf32", "without_ec", "col_major", "col_major", 64, 64, 32, 32, 32, 16, 128, "s", 0>>,
     <<"float", "tf32", "without_ec", "col_major", "col_major", 64, 64, 32, 32, 32, 16, 128, "s", 1>>,
     <<"float", "half", "with_ec", "row_major", "col_major", 64, 64, 32, 32, 32, 16, 128, "s", 0>>,
     <<"float", "half", "with_ec", "row_major", "col_major", 64, 64, 32, 32, 32, 16, 128, "s", 1>>,
     <<"float", "tf32", "with_ec", "row_major", "col_major", 64, 64, 32, 32, 32, 16, 128, "s", 0>>,
     <<"float", "tf32", "with_ec", "row_major", "col_major", 64, 64, 32, 32, 32, 16, 128, "s", 1>>,
     <<"float", "half", "without_ec", "row_major", "col_major", 64, 64, 32, 32, 32, 16, 128, "s", 0>>,
     <<"float", "half", "without_ec", "row_major", "col_major", 64, 64, 32, 32, 32, 16, 128, "s", 1>>,
     <<"float", "tf32", "without_ec", "row_major", "col_major", 64, 64, 32, 32, 32, 16, 128, "s", 0>>,
     <<"float", "tf32", "without_ec", "row_major", "col_major", 64, 64, 32, 32, 32, 16, 128, "s", 1>>,
     <<"float", "half", "with_ec", "col_major", "row_major", 64, 64, 32, 32, 32, 16, 128, "s", 0>>,
     <<"float", "half", "with_ec", "col_major", "row_major", 64, 64, 32, 32, 32, 16, 128, "s", 1>>,
     <<"float", "tf32", "with_ec", "col_major", "row_major", 64, 64, 32, 32, 32, 16, 128, "s", 0>>,
     <<"float", "tf32", "with_ec", "col_major", "row_major", 64, 64, 32, 32, 32, 16, 128, "s", 1>>,
     <<"float", "half", "without_ec", "col_major", "row_major", 64, 64, 32, 32, 32, 16, 128, "s", 0>>,
     <<"float", "half", "without_ec", "col_major", "row_major", 64, 64, 32, 32, 32, 16, 128, "s", 1>>,
     <<"float", "tf32", "without_ec", "col_major", "row_major", 64, 64, 32, 32, 32, 16, 128, "s", 0>>,
     <<"float", "tf32", "without_ec", "col_major", "row_major", 64, 64, 32, 32, 32, 16, 128, "s", 1>>,
     <<"float", "half", "with_ec", "row_major", "row_major", 64, 64, 32, 32, 32, 16, 128, "s", 0>>,
     <<"float", "half", "with_ec", "row_major", "row_major", 64, 64, 32, 32, 32, 16, 128, "s", 1>>,
     <<"float", "tf32", "with_ec", "row_major", "row_major", 64, 64, 32, 32, 32, 16, 128, "s", 0>>,
     <<"float", "tf32", "with_ec", "row_major", "row_major", 64, 64, 32, 32, 32, 16, 128, "s", 1>>,
     <<"float", "half", "without_ec", "row_major", "row_major", 64, 64, 32, 32, 32, 16, 128, "s", 0>>,
     <<"float", "half", "without_ec", "row_major", "row_major", 64, 64, 32, 32, 32, 16, 128, "s", 1>>,
     <<"float", "tf32", "without_ec", "row_major", "row_major", 64, 64, 32, 32, 32, 16, 128, "s", 0>>,
     <<"float", "tf32", "without_ec", "row_major", "row_major", 64, 64, 32, 32, 32, 16, 128, "s", 1>>,
     <<"cuComplex", "half", "with_ec", "col_major", "col_major", 64, 64, 32, 32, 32, 16, 128, "c", 0>>,
     <<"cuComplex", "half", "with_ec", "col_major", "col_major", 64, 64, 32, 32, 32, 16, 128, "c", 1>>,
     <<"cuComplex", "tf32", "with_ec", "col_major", "col_major", 64, 64, 32, 32, 32, 16, 128, "c", 0>>,
     <<"cuComplex", "tf32", "with_ec", "col_major", "col_major", 64, 64, 32, 32, 32, 16, 128, "c", 1>>,
     <<"cuComplex", "half", "without_ec", "col_major", "col_major", 64, 64, 32, 32, 32, 16, 128, "c", 0>>,
     <<"cuComplex", "half", "without_ec", "col_major", "col_major", 64, 64, 32, 32, 32, 16, 128, "c", 1>>,
     <<"cuComplex", "tf32", "without_ec", "col_major", "col_major", 64, 64, 32, 32, 32, 16, 128, "c", 0>>,
     <<"cuComplex", "tf32", "without_ec", "col_major", "col_major", 64, 64, 32, 32, 32, 16, 128, "c", 1>>,
     <<"cuComplex", "half", "with_ec", "row_major", "col_major", 64, 64, 32, 32, 32, 16, 128, "c", 0>>,
     <<"cuComplex", "half", "with_ec", "row_major", "col_major", 64, 64, 32, 32, 32, 16, 128, "c", 1>>,
     <<"cuComplex", "tf32", "with_ec", "row_major", "col_major", 64, 64, 32, 32, 32, 16, 128, "c", 0>>,
     <<"cuComplex", "tf32", "with_ec", "row_major", "col_major", 64, 64, 32, 32, 32, 16, 128, "c", 1>>,
     <<"cuComplex", "half", "without_ec", "row_major", "col_major", 64, 64, 32, 32, 32, 16, 128, "c", 0>>,
     <<"cuComplex", "half", "without_ec", "row_major", "col_major", 64, 64, 32, 32, 32, 16, 128, "c", 1>>,
     <<"cuComplex", "tf32", "without_ec", "row_major", "col_major", 64, 64, 32, 32, 32, 16, 128, "c", 0>>,
     <<"cuComplex", "tf32", "without_ec", "row_major", "col_major", 64, 64, 32, 32, 32, 16, 128, "c", 1>>,
     <<"cuComplex", "half", "with_ec", "conjugate", "col_major", 64, 64, 32, 32, 32, 16, 128, "c", 0>>,
     <<"cuComplex", "half", "with_ec", "conjugate", "col_major", 64, 64, 32, 32, 32, 16, 128, "c", 1>>,
     <<"cuComplex", "tf32", "with_ec", "conjugate", "col_major", 64, 64, 32, 32, 32, 16, 128, "c", 0>>,
     <<"cuComplex", "tf32", "with_ec", "conjugate", "col_major", 64, 64, 32, 32, 32, 16, 128, "c", 1>>,
     <<"cuComplex", "half", "without_ec", "conjugate", "col_major", 64, 64, 32, 32, 32, 16, 128, "c", 0>>,
     <<"cuComplex", "half", "without_ec", "conjugate", "col_major", 64, 64, 32, 32, 32, 16, 128, "c", 1>>,
     <<"cuComplex", "tf32", "without_ec", "conjugate", "col_major", 64, 64, 32, 32, 32, 16, 128, "c", 0>>,
     <<"cuComplex", "tf32", "without_ec", "conjugate", "col_major", 64, 64, 32, 32, 32, 16, 128, "c", 1>>,
     <<"cuComplex", "half", "with_ec", "col_major", "row_major", 64, 64, 32, 32, 32, 16, 128, "c", 0>>,
     <<"cuComplex", "half", "with_ec", "col_major", "row_major", 64, 64, 32, 32, 32, 16, 128, "c", 1>>,
     <<"cuComplex", "tf32", "with_ec", "col_major", "row_major", 64, 64, 32, 32, 32, 16, 128, "c", 0>>,
     <<"cuComplex", "tf32", "with_ec", "col_major", "row_major", 64, 64, 32, 32, 32, 16, 128, "c", 1>>,
     <<"cuComplex", "half", "without_ec", "col_major", "row_major", 64, 64, 32, 32, 32, 16, 128, "c", 0>>,
     <<"cuComplex", "half", "without_ec", "col_major", "row_major", 64, 64, 32, 32, 32, 16, 128, "c", 1>>,
     <<"cuComplex", "tf32", "without_ec", "col_major", "row_major", 64, 64, 32, 32, 32, 16, 128, "c", 0>>,
     <<"cuComplex", "tf32", "without_ec", "col_major", "row_major", 64, 64, 32, 32, 32, 16, 128, "c", 1>>,
     <<"cuComplex", "half", "with_ec", "row_major", "row_major", 64, 64, 32, 32, 32, 16, 128, "c", 0>>,
     <<"cuComplex", "half", "with_ec", "row_major", "row_major", 64, 64, 32, 32, 32, 16, 128, "c", 1>>,
     <<"cuComplex", "tf32", "with_ec", "row_major", "row_major", 64, 64, 32, 32, 32, 16, 128, "c", 0>>,
     <<"cuComplex", "tf32", "with_ec", "row_major", "row_major", 64, 64, 32, 32, 32, 16, 128, "c", 1>>,
     <<"cuComplex", "half", "without_ec", "row_major", "row_major", 64, 64, 32, 32, 32, 16, 128, "c", 0>>,
     <<"cuComplex", "half", "without_ec", "row_major", "row_major", 64, 64, 32, 32, 32, 16, 128, "c", 1>>,
     <<"cuComplex", "tf32", "without_ec", "row_major", "row_major", 64, 64, 32, 32, 32, 16, 128, "c", 0>>,
     <<"cuComplex", "tf32", "without_ec", "row_major", "row_major", 64, 64, 32, 32, 32, 16, 128, "c", 1>>,
     <<"cuComplex", "half", "with_ec", "conjugate", "row_major", 64, 64, 32, 32, 32, 16, 128, "c", 0>>,
     <<"cuComplex", "half", "with_ec", "conjugate", "row_major", 64, 64, 32, 32, 32, 16, 128, "c", 1>>,
     <<"cuComplex", "tf32", "with_ec", "conjugate", "row_major", 64, 64, 32, 32, 32, 16, 128, "c", 0>>,
     <<"cuComplex", "tf32", "with_ec", "conjugate", "row_major", 64, 64, 32, 32, 32, 16, 128, "c", 1>>,
     <<"cuComplex", "half", "without_ec", "conjugate", "row_major", 64, 64, 32, 32, 32, 16, 128, "c", 0>>,
     <<"cuComplex", "half", "without_ec", "conjugate", "row_major", 64, 64, 32, 32, 32, 16, 128, "c", 1>>,
     <<"cuComplex", "tf32", "without_ec", "conjugate", "row_major", 64, 64, 32, 32, 32, 16, 128, "c", 0>>,
     <<"cuComplex", "tf32", "without_ec", "conjugate", "row_major", 64, 64, 32, 32, 32, 16, 128, "c", 1>>,
     <<"cuComplex", "half", "with_ec", "col_major", "conjugate", 64, 64, 32, 32, 32, 16, 128, "c", 0>>,
     <<"cuComplex", "half", "with_ec", "col_major", "conjugate", 64, 64, 32, 32, 32, 16, 128, "c", 1>>,
     <<"cuComplex", "tf32", "with_ec", "col_major", "conjugate", 64, 64, 32, 32, 32, 16, 128, "c", 0>>,
     <<"cuComplex", "tf32", "with_ec", "col_major", "conjugate", 64, 64, 32, 32, 32, 16, 128, "c", 1>>,
     <<"cuComplex", "half", "without_ec", "col_major", "conjugate", 64, 64, 32, 32, 32, 16, 128, "c", 0>>,
     <<"cuComplex", "half", "without_ec", "col_major", "conjugate", 64, 64, 32, 32, 32, 16, 128, "c", 1>>,
     <<"cuComplex", "tf32", "without_ec", "col_major", "conjugate", 64, 64, 32, 32, 32, 16, 128, "c", 0>>,
     <<"cuComplex", "tf32", "without_ec", "col_major", "conjugate", 64, 64, 32, 32, 32, 16, 128, "c", 1>>,
     <<"cuComplex", "half", "with_ec", "row_major", "conjugate", 64, 64, 32, 32, 32, 16, 128, "c", 0>>,
     <<"cuComplex", "half", "with_ec", "row_major", "conjugate", 64, 64, 32, 32, 32, 16, 128, "c", 1>>,
     <<"cuComplex", "tf32", "with_ec", "row_major", "conjugate", 64, 64, 32, 32, 32, 16, 128, "c", 0>>,
     <<"cuComplex", "tf32", "with_ec", "row_major", "conjugate", 64, 64, 32, 32, 32, 16, 128, "c", 1>>,
     <<"cuComplex", "half", "without_ec", "row_major", "conjugate", 64, 64, 32, 32, 32, 16, 128, "c", 0>>,
     <<"cuComplex", "half", "without_ec", "row_major", "conjugate", 64, 64, 32, 32, 32, 16, 128, "c", 1>>,
     <<"cuComplex", "tf32", "without_ec", "row_major", "conjugate", 64, 64, 32, 32, 32, 16, 128, "c", 0>>,
     <<"cuComplex", "tf32", "without_ec", "row_major", "conjugate", 64, 64, 32, 32, 32, 16, 128, "c", 1>>,
     <<"cuComplex", "half", "with_ec", "conjugate", "conjugate", 64, 64, 32, 32, 32, 16, 128, "c", 0>>,
     <<"cuComplex", "half", "with_ec", "conjugate", "conjugate", 64, 64, 32, 32, 32, 16, 128, "c", 1>>,
     <<"cuComplex", "tf32", "with_ec", "conjugate", "conjugate", 64, 64, 32, 32, 32, 16, 128, "c", 0>>,
     <<"cuComplex", "tf32", "with_ec", "conjugate", "conjugate", 64, 64, 32, 32, 32, 16, 128, "c", 1>>,
     <<"cuComplex", "half", "without_ec", "conjugate", "conjugate", 64, 64, 32, 32, 32, 16, 128, "c", 0>>,
     <<"cuComplex", "half", "without_ec", "conjugate", "conjugate", 64, 64, 32, 32, 32, 16, 128, "c", 1>>,
     <<"cuComplex", "tf32", "without_ec", "conjugate", "conjugate", 64, 64, 32, 32, 32, 16, 128, "c", 0>>,
     <<"cuComplex", "tf32", "without_ec", "conjugate", "conjugate", 64, 64, 32, 32, 32, 16, 128, "c", 1>> >>

\* the codes the array module_list[max_code][num_kernel_candidates] is indexed by
ModuleCodes == 0 .. (kernel_module_code.max_code - 1)
Stages == 0 .. (num_kernel_candidates - 1)

\* module_list after the assignments module_list[code][stage] = generate...() of
\* regs, made in order: an element holds what the last registration that names
\* it wrote.  Only the codes some registration names are kept in the map; a
\* code outside its domain is an array row nothing has written.
RegisterAll(table, regs) ==
  LET Written(code, stage) ==
        {i \in 1 .. Len(regs) : registration_code(regs[i]) = code /\ regs[i][14] = stage}
      Last(W) == CHOOSE i \in W : \A j \in W : j <= i
  IN  [code \in {registration_code(regs[i]) : i \in 1 .. Len(regs)} |->
         [stage \in Stages |->
            IF Written(code, stage) = {} THEN UnsetModule
            ELSE generate_gemm_module(table, regs[Last(Written(code, stage))])]]

\* module_list[code][stage], an unwritten element included
ModuleAt(module_list, code, stage) ==
  IF code \in DOMAIN module_list THEN module_list[code][stage] ELSE UnsetModule

\* module_list[code]: the candidate list of a signature
CandidateList(module_list, code) ==
  [stage \in Stages |-> ModuleAt(module_list, code, stage)]

(* ------------------------------- state -------------------------------- *)
VARIABLES
  handle_state,    \* "Uninitialized", "Active" or "Destroyed"
  handle,          \* the fields of cuMpSGEMM_handle, cuda_stream included
  call,            \* the last public call: its arguments, what it issued, its return
  ncalls           \* number of public GEMM calls issued so far

vars == <<handle_state, handle, call, ncalls>>

NoCall == [fn |-> "none"]

RingIds == 0 .. (RingSize - 1)

(* --------------------------- statistics ring -------------------------- *)
\* cumpsgemm::exp_stats::get_next_buffer_id: advance the wrapping cursor
get_next_buffer_id(h) ==
  [h EXCEPT !.current_buffer_id = (h.current_buffer_id + 1) % RingSize]

\* cumpsgemm::exp_stats::get_current_buffer_id
get_current_buffer_id(h) == h.current_buffer_id

\* cumpsgemm::exp_stats::init_counter: zero the slot, on the handle's stream
init_counter(h, buffer_id) ==
  [h EXCEPT !.cuda_stream = Append(h.cuda_stream,
                                   [op |-> "init_counter", buffer_id |-> buffer_id, cur |-> TRUE])]

\* cumpsgemm::exp_stats::download_exp_stats: copy the slot to its host mirror,
\* on the handle's stream
download_exp_stats(h, buffer_id) ==
  [h EXCEPT !.cuda_stream = Append(h.cuda_stream,
                                   [op |-> "download", buffer_id |-> buffer_id, cur |-> TRUE])]

\* cumpsgemm::exp_stats::get_exp_stats: the host mirror as (flagged, total)
get_exp_stats(h, buffer_id) ==
  <<h.host_lost_counter_buffer[buffer_id], h.host_total_counter_buffer[buffer_id]>>

(* ------------------------------ launches ------------------------------ *)
\* grid size of the non-batched launch_kernel
gemm_grid_size(gemm_module, m, n) ==
  ((m + gemm_module.smem_m - 1) \div gemm_module.smem_m)
    * ((n + gemm_module.smem_n - 1) \div gemm_module.smem_n)

\* num_blocks_per_gemm of the strided-batch launch_kernel; * and / associate
\* to the left: ((ceil(m / smem_m)) * (n + smem_n - 1)) / smem_n
num_blocks_per_gemm(gemm_module, m, n) ==
  (((m + gemm_module.smem_m - 1) \div gemm_module.smem_m) * (n + gemm_module.smem_n - 1))
    \div gemm_module.smem_n

\* what the device does when it runs a launched kernel: with non-null counter
\* pointers the kernel adds the elements it inspected to *total_counter and the
\* elements it flagged to *lost_counter; cur marks the work of the latest call
KernelOp(launch) ==
  [ op |-> "kernel", c_ptr |-> launch.c_ptr,
    total_counter |-> launch.total_counter, lost_counter |-> launch.lost_counter,
    inspected |-> IF launch.total_counter = NULLPTR THEN 0 ELSE launch.inspected,
    flagged   |-> IF launch.lost_counter = NULLPTR THEN 0 ELSE launch.flagged,
    cur |-> TRUE ]

\* launch_kernel<T> (non-batched): the arguments of the one kernel it launches
launch_kernel(gemm_module, m, n, k, a_ptr, b_ptr, c_ptr, total_counter, lost_counter, lost) ==
  [ batched |-> FALSE, gemm_module |-> gemm_module,
    grid_size |-> gemm_grid_size(gemm_module, m, n),
    m |-> m, n |-> n, k |-> k,
    a_ptr |-> a_ptr, b_ptr |-> b_ptr, c_ptr |-> c_ptr, batch_count |-> 1,
    total_counter |-> total_counter, lost_counter |-> lost_counter,
    inspected |-> m * n, flagged |-> lost ]

\* the strided-batch launch with the grid of a single item
launch_kernel_stridedBatch_one_item(gemm_module, m, n, k, a_ptr, b_ptr, c_ptr, batch_count, total_counter, lost_counter, lost) ==
  [ batched |-> TRUE, gemm_module |-> gemm_module,
    grid_size |-> num_blocks_per_gemm(gemm_module, m, n),
    m |-> m, n |-> n, k |-> k,
    a_ptr |-> a_ptr, b_ptr |-> b_ptr, c_ptr |-> c_ptr, batch_count |-> batch_count,
    total_counter |-> total_counter, lost_counter |-> lost_counter,
    inspected |-> m * n * batch_count, flagged |-> lost * batch_count ]

\* launch_kernel<T> (strided batch): one kernel over batch_count items
launch_kernel_stridedBatch(gemm_module, m, n, k, a_ptr, b_ptr, c_ptr, batch_count, total_counter, lost_counter, lost) ==
  [ batched |-> TRUE, gemm_module |-> gemm_module,
    grid_size |-> num_blocks_per_gemm(gemm_module, m, n) * batch_count,
    m |-> m, n |-> n, k |-> k,
    a_ptr |-> a_ptr, b_ptr |-> b_ptr, c_ptr |-> c_ptr, batch_count |-> batch_count,
    total_counter |-> total_counter, lost_counter |-> lost_counter,
    inspected |-> m * n * batch_count, flagged |-> lost * batch_count ]

\* the launch put ahead of the work already on the stream
Enqueue_front(h, launch) ==
  [h EXCEPT !.cuda_stream = <<KernelOp(launch)>> \o h.cuda_stream]

\* kernel<<<grid, block, smem, cuda_stream>>>(...): the launch is enqueued
Enqueue(h, launch) ==
  [h EXCEPT !.cuda_stream = Append(h.cuda_stream, KernelOp(launch))]

(* ------------------------- variant selection -------------------------- *)
\* the scan of cumpsgemm::gemm with >= in place of > in the occupancy test
RECURSIVE gemm_scan_ge(_, _, _, _, _, _, _)
gemm_scan_ge(list, num, m, n, num_sms, module_id, gemm_module) ==
  IF module_id < num - 1
  THEN IF (m * n) \div (list[module_id].smem_m * list[module_id].smem_n) >= num_sms * 32
       THEN [module_id |-> module_id, gemm_module |-> list[module_id]]
       ELSE gemm_scan_ge(list, num, m, n, num_sms, module_id + 1, gemm_module)
  ELSE [module_id |-> module_id, gemm_module |-> gemm_module]

\* the scan of cumpsgemm::gemm over a candidate list of num stages:
\*   gemm_module = list[num - 1];
\*   for (module_id = 0; module_id < num - 1; module_id++)
\*     if (m * n / (smem_m * smem_n) > num_sms * 32) { gemm_module = module; break; }
\* The result is module_id and gemm_module when the loop is left.
RECURSIVE gemm_scan(_, _, _, _, _, _, _)
gemm_scan(list, num, m, n, num_sms, module_id, gemm_module) ==
  IF module_id < num - 1
  THEN IF (m * n) \div (list[module_id].smem_m * list[module_id].smem_n) > num_sms * 32
       THEN [module_id |-> module_id, gemm_module |-> list[module_id]]
       ELSE gemm_scan(list, num, m, n, num_sms, module_id + 1, gemm_module)
  ELSE [module_id |-> module_id, gemm_module |-> gemm_module]

\* the scan of cumpsgemm::gemm_stridedBatch with batch_count left out of the estimate
RECURSIVE gemm_stridedBatch_scan_nobatch(_, _, _, _, _, _, _, _)
gemm_stridedBatch_scan_nobatch(list, num, m, n, batch_count, num_sms, module_id, gemm_module) ==
  IF module_id < num - 1
  THEN IF (m * n) \div (list[module_id].smem_m * list[module_id].smem_n) > num_sms * 32
       THEN [module_id |-> module_id, gemm_module |-> list[module_id]]
       ELSE gemm_stridedBatch_scan_nobatch(list, num, m, n, batch_count, num_sms, module_id + 1,
                                           gemm_module)
  ELSE [module_id |-> module_id, gemm_module |-> gemm_module]

\* the scan of cumpsgemm::gemm_stridedBatch: the estimate is multiplied by batch_count
RECURSIVE gemm_stridedBatch_scan(_, _, _, _, _, _, _, _)
gemm_stridedBatch_scan(list, num, m, n, batch_count, num_sms, module_id, gemm_module) ==
  IF module_id < num - 1
  THEN IF ((m * n) \div (list[module_id].smem_m * list[module_id].smem_n)) * batch_count > num_sms * 32
       THEN [module_id |-> module_id, gemm_module |-> list[module_id]]
       ELSE gemm_stridedBatch_scan(list, num, m, n, batch_count, num_sms, module_id + 1, gemm_module)
  ELSE [module_id |-> module_id, gemm_module |-> gemm_module]

\* variant selection of cumpsgemm::gemm with m * m in place of m * n
gemm_select_rows_squared(list, num, m, n, num_sms) ==
  gemm_scan(list, num, m, m, num_sms, 0, list[num - 1])

\* variant selection of cumpsgemm::gemm: the default is the last candidate
gemm_select(list, num, m, n, num_sms) ==
  gemm_scan(list, num, m, n, num_sms, 0, list[num - 1])

\* variant selection of cumpsgemm::gemm_stridedBatch below the cutoff
gemm_stridedBatch_select(list, num, m, n, batch_count, num_sms) ==
  gemm_stridedBatch_scan(list, num, m, n, batch_count, num_sms, 0, list[num - 1])

(* ---------------------------- cumpsgemm::gemm -------------------------- *)
\* what a call has done so far: the kernels it launched, the cursor advances,
\* the slots it zeroed and downloaded, and the out-parameter
\* used_kernel_modeule_id ("unwritten" until assigned)
EmptyLog ==
  [ launches |-> <<>>, advances |-> 0, inits |-> <<>>, downloads |-> <<>>,
    used_kernel_modeule_id |-> "unwritten" ]

\* the out-parameter written with a one-based stage number
WriteModuleId_one_based(log, out_given, module_id) ==
  IF out_given THEN [log EXCEPT !.used_kernel_modeule_id = module_id + 1] ELSE log

\* if (used_kernel_modeule_id != nullptr) *used_kernel_modeule_id = module_id;
WriteModuleId(log, out_given, module_id) ==
  IF out_given THEN [log EXCEPT !.used_kernel_modeule_id = module_id] ELSE log

\* the statistics set-up of cumpsgemm::gemm without the cursor advance
gemm_exp_stats_setup_no_advance(ctx) ==
  LET h0  == ctx.h
      adv == h0.exp_stats_enabled /\ ~h0.counter_init_disabled
      h1  == h0
      buffer_id == get_current_buffer_id(h1)
      h2  == IF adv THEN init_counter(h1, buffer_id) ELSE h1
  IN  [ h   |-> h2,
        log |-> [ctx.log EXCEPT !.advances = IF adv THEN @ + 1 ELSE @,
                                !.inits = IF adv THEN Append(@, buffer_id) ELSE @],
        total_counter_ptr |-> IF h0.exp_stats_enabled THEN CounterPtr(buffer_id) ELSE NULLPTR,
        lost_counter_ptr  |-> IF h0.exp_stats_enabled THEN CounterPtr(buffer_id) ELSE NULLPTR ]

\* the statistics set-up of cumpsgemm::gemm zeroing before it advances: the
\* slot current on entry is zeroed, then the cursor moves on
gemm_exp_stats_setup_zero_first(ctx) ==
  LET h0  == ctx.h
      adv == h0.exp_stats_enabled /\ ~h0.counter_init_disabled
      h1  == IF adv THEN init_counter(h0, get_current_buffer_id(h0)) ELSE h0
      h2  == IF adv THEN get_next_buffer_id(h1) ELSE h1
      buffer_id == get_current_buffer_id(h2)
  IN  [ h   |-> h2,
        log |-> [ctx.log EXCEPT !.advances = IF adv THEN @ + 1 ELSE @,
                                !.inits = IF adv THEN Append(@, get_current_buffer_id(h0)) ELSE @],
        total_counter_ptr |-> IF h0.exp_stats_enabled THEN CounterPtr(buffer_id) ELSE NULLPTR,
        lost_counter_ptr  |-> IF h0.exp_stats_enabled THEN CounterPtr(buffer_id) ELSE NULLPTR ]

\* the statistics set-up of cumpsgemm::gemm without the init_counter call
gemm_exp_stats_setup_no_init(ctx) ==
  LET h0  == ctx.h
      adv == h0.exp_stats_enabled /\ ~h0.counter_init_disabled
      h1  == IF adv THEN get_next_buffer_id(h0) ELSE h0
      buffer_id == get_current_buffer_id(h1)
      h2  == h1
  IN  [ h   |-> h2,
        log |-> [ctx.log EXCEPT !.advances = IF adv THEN @ + 1 ELSE @,
                                !.inits = IF adv THEN Append(@, buffer_id) ELSE @],
        total_counter_ptr |-> IF h0.exp_stats_enabled THEN CounterPtr(buffer_id) ELSE NULLPTR,
        lost_counter_ptr  |-> IF h0.exp_stats_enabled THEN CounterPtr(buffer_id) ELSE NULLPTR ]

\* the statistics set-up of cumpsgemm::gemm before the launch: advance the
\* cursor and zero the slot unless counter_init_disabled, then take the
\* counter pointers of the current slot; null pointers with statistics disabled
gemm_exp_stats_setup(ctx) ==
  LET h0  == ctx.h
      adv == h0.exp_stats_enabled /\ ~h0.counter_init_disabled
      h1  == IF adv THEN get_next_buffer_id(h0) ELSE h0
      buffer_id == get_current_buffer_id(h1)
      h2  == IF adv THEN init_counter(h1, buffer_id) ELSE h1
  IN  [ h   |-> h2,
        log |-> [ctx.log EXCEPT !.advances = IF adv THEN @ + 1 ELSE @,
                                !.inits = IF adv THEN Append(@, buffer_id) ELSE @],
        total_counter_ptr |-> IF h0.exp_stats_enabled THEN CounterPtr(buffer_id) ELSE NULLPTR,
        lost_counter_ptr  |-> IF h0.exp_stats_enabled THEN CounterPtr(buffer_id) ELSE NULLPTR ]

\* the set-up of the batched launch guarded by counter_init_disabled as the
\* non-batched one is
gemm_stridedBatch_exp_stats_setup_guarded(ctx) == gemm_exp_stats_setup(ctx)

\* the statistics set-up of cumpsgemm::gemm_stridedBatch below the cutoff:
\* counter_init_disabled is not consulted
gemm_stridedBatch_exp_stats_setup(ctx) ==
  LET h0  == ctx.h
      adv == h0.exp_stats_enabled
      h1  == IF adv THEN get_next_buffer_id(h0) ELSE h0
      buffer_id == get_current_buffer_id(h1)
      h2  == IF adv THEN init_counter(h1, buffer_id) ELSE h1
  IN  [ h   |-> h2,
        log |-> [ctx.log EXCEPT !.advances = IF adv THEN @ + 1 ELSE @,
                                !.inits = IF adv THEN Append(@, buffer_id) ELSE @],
        total_counter_ptr |-> IF adv THEN CounterPtr(buffer_id) ELSE NULLPTR,
        lost_counter_ptr  |-> IF adv THEN CounterPtr(buffer_id) ELSE NULLPTR ]

\* the download queued whether or not statistics are enabled
exp_stats_download_unconditional(ctx) ==
  [ h   |-> download_exp_stats(ctx.h, get_current_buffer_id(ctx.h)),
    log |-> [ctx.log EXCEPT !.downloads = Append(@, get_current_buffer_id(ctx.h))] ]

\* the download queued for the slot after the current one
exp_stats_download_next_slot(ctx) ==
  IF ctx.h.exp_stats_enabled
  THEN [ h   |-> download_exp_stats(ctx.h, get_current_buffer_id(get_next_buffer_id(ctx.h))),
         log |-> [ctx.log EXCEPT !.downloads = Append(@, get_current_buffer_id(ctx.h))] ]
  ELSE [ h |-> ctx.h, log |-> ctx.log ]

\* after the launch, in both functions:
\*   if (exp_stats_enabled) download_exp_stats(handle, get_current_buffer_id(handle));
exp_stats_download(ctx) ==
  IF ctx.h.exp_stats_enabled
  THEN [ h   |-> download_exp_stats(ctx.h, get_current_buffer_id(ctx.h)),
         log |-> [ctx.log EXCEPT !.downloads = Append(@, get_current_buffer_id(ctx.h))] ]
  ELSE [ h |-> ctx.h, log |-> ctx.log ]

\* the launch statement of both functions: the kernel goes on the stream
Launched(ctx, launch) ==
  [ h   |-> Enqueue(ctx.h, launch),
    log |-> [ctx.log EXCEPT !.launches = Append(@, launch)] ]

\* the non-batched launch with the counter pointers the set-up c2 produced
gemm_launch(c2, gemm_module, m, n, k, a_ptr, b_ptr, c_ptr, lost) ==
  Launched(c2, launch_kernel(gemm_module, m, n, k, a_ptr, b_ptr, c_ptr,
                             c2.total_counter_ptr, c2.lost_counter_ptr, lost))

\* the return of a call that has overwritten the non-batched table with the
\* batched one
Returned_table_written(ctx) ==
  [h |-> [ctx.h EXCEPT !.gemm_module = ctx.h.gemm_stridedBatch_module],
   log |-> ctx.log, status |-> "CUBLAS_STATUS_SUCCESS"]

\* return CUBLAS_STATUS_SUCCESS;
Returned(ctx) ==
  [h |-> ctx.h, log |-> ctx.log, status |-> "CUBLAS_STATUS_SUCCESS"]

\* cumpsgemm::gemm<T> from the selection sel on: report the stage, set up the
\* statistics, launch, queue the download
gemm_selected(ctx, sel, m, n, k, a_ptr, b_ptr, c_ptr, out_given, lost) ==
  Returned(exp_stats_download(
    gemm_launch(gemm_exp_stats_setup([h |-> ctx.h, log |-> WriteModuleId(ctx.log, out_given, sel.module_id)]),
                sel.gemm_module, m, n, k, a_ptr, b_ptr, c_ptr, lost)))

\* cumpsgemm::gemm<T>; ctx = [h |-> handle fields, log |-> what the call did]
gemm(ctx, T, op_A, op_B, m, n, k, a_ptr, b_ptr, c_ptr, compute_mode, out_given, lost) ==
  gemm_selected(ctx,
                gemm_select(CandidateList(ctx.h.gemm_module, gen_module_code(T, op_A, op_B, compute_mode)),
                            ctx.h.num_kernel_candidates, m, n, ctx.h.num_sms),
                m, n, k, a_ptr, b_ptr, c_ptr, out_given, lost)

(* ----------------------- cumpsgemm::gemm_stridedBatch ------------------ *)
\* handle->counter_init_disabled = true; after a sub-call
sub_call_suppress(sub) ==
  [ h |-> [sub.h EXCEPT !.counter_init_disabled = TRUE], log |-> sub.log ]

\* the decomposition loop without handle->counter_init_disabled = true
RECURSIVE gemm_stridedBatch_loop_no_suppress(_, _, _, _, _, _, _, _, _, _, _, _, _, _, _, _, _)
gemm_stridedBatch_loop_no_suppress(ctx, T, op_A, op_B, m, n, k, a_ptr, stridea, b_ptr, strideb, c_ptr, stridec, i, compute_mode, out_given, lost) ==
  IF i = 0 THEN ctx
  ELSE gemm(gemm_stridedBatch_loop_no_suppress(ctx, T, op_A, op_B, m, n, k, a_ptr, stridea, b_ptr, strideb,
                                               c_ptr, stridec, i - 1, compute_mode, out_given, lost),
            T, op_A, op_B, m, n, k,
            a_ptr + (i - 1) * stridea, b_ptr + (i - 1) * strideb, c_ptr + (i - 1) * stridec,
            compute_mode, out_given, lost)

\* the decomposition loop stepping the pointers by i + 1 strides: item 0 is
\* skipped and an item past the end is issued
RECURSIVE gemm_stridedBatch_loop_from_one(_, _, _, _, _, _, _, _, _, _, _, _, _, _, _, _, _)
gemm_stridedBatch_loop_from_one(ctx, T, op_A, op_B, m, n, k, a_ptr, stridea, b_ptr, strideb, c_ptr, stridec, i, compute_mode, out_given, lost) ==
  IF i = 0 THEN ctx
  ELSE sub_call_suppress(
         gemm(gemm_stridedBatch_loop_from_one(ctx, T, op_A, op_B, m, n, k, a_ptr, stridea, b_ptr, strideb,
                                              c_ptr, stridec, i - 1, compute_mode, out_given, lost),
              T, op_A, op_B, m, n, k,
              a_ptr + i * stridea, b_ptr + i * strideb, c_ptr + i * stridec,
              compute_mode, out_given, lost))

\* the decomposition loop:
\*   for (i = 0; i < batch_count; i++) { gemm(..., ptr + i * stride, ...);
\*                                       handle->counter_init_disabled = true; }
\* the context after iterations 0 .. i-1
RECURSIVE gemm_stridedBatch_loop(_, _, _, _, _, _, _, _, _, _, _, _, _, _, _, _, _)
gemm_stridedBatch_loop(ctx, T, op_A, op_B, m, n, k, a_ptr, stridea, b_ptr, strideb, c_ptr, stridec, i, compute_mode, out_given, lost) ==
  IF i = 0 THEN ctx
  ELSE sub_call_suppress(
         gemm(gemm_stridedBatch_loop(ctx, T, op_A, op_B, m, n, k, a_ptr, stridea, b_ptr, strideb,
                                     c_ptr, stridec, i - 1, compute_mode, out_given, lost),
              T, op_A, op_B, m, n, k,
              a_ptr + (i - 1) * stridea, b_ptr + (i - 1) * strideb, c_ptr + (i - 1) * stridec,
              compute_mode, out_given, lost))

\* the large-problem test with >= in place of >
is_large_problem_ge(m, n) == m * n >= 16777216

\* the large-problem test of gemm_stridedBatch: m * n > (1lu << 24)
is_large_problem(m, n) == m * n > 16777216

\* the return after the loop without handle->counter_init_disabled = false
loop_done_flag_kept(after) ==
  [ h      |-> after.h,
    log    |-> after.log,
    status |-> "CUBLAS_STATUS_SUCCESS" ]

\* after the loop: handle->counter_init_disabled = false; return CUBLAS_STATUS_SUCCESS;
loop_done(after) ==
  [ h      |-> [after.h EXCEPT !.counter_init_disabled = FALSE],
    log    |-> after.log,
    status |-> "CUBLAS_STATUS_SUCCESS" ]

\* the batched launch with the counter pointers the set-up c2 produced
gemm_stridedBatch_launch(c2, gemm_module, m, n, k, a_ptr, b_ptr, c_ptr, batch_count, lost) ==
  Launched(c2, launch_kernel_stridedBatch(gemm_module, m, n, k, a_ptr, b_ptr, c_ptr, batch_count,
                                          c2.total_counter_ptr, c2.lost_counter_ptr, lost))

\* cumpsgemm::gemm_stridedBatch<T> below the cutoff, from the selection sel on
gemm_stridedBatch_selected(ctx, sel, m, n, k, a_ptr, b_ptr, c_ptr, batch_count, out_given, lost) ==
  Returned(exp_stats_download(
    gemm_stridedBatch_launch(
      gemm_stridedBatch_exp_stats_setup([h |-> ctx.h, log |-> WriteModuleId(ctx.log, out_given, sel.module_id)]),
      sel.gemm_module, m, n, k, a_ptr, b_ptr, c_ptr, batch_count, lost)))

\* cumpsgemm::gemm_stridedBatch<T>
gemm_stridedBatch(ctx, T, op_A, op_B, m, n, k, a_ptr, stridea, b_ptr, strideb, c_ptr, stridec, batch_count, compute_mode, out_given, lost) ==
  IF is_large_problem(m, n)
  THEN loop_done(gemm_stridedBatch_loop(ctx, T, op_A, op_B, m, n, k, a_ptr, stridea, b_ptr, strideb,
                                        c_ptr, stridec, batch_count, compute_mode, out_given, lost))
  ELSE gemm_stridedBatch_selected(
         ctx,
         gemm_stridedBatch_select(
           CandidateList(ctx.h.gemm_stridedBatch_module, gen_module_code(T, op_A, op_B, compute_mode)),
           ctx.h.num_kernel_candidates, m, n, batch_count, ctx.h.num_sms),
         m, n, k, a_ptr, b_ptr, c_ptr, batch_count, out_given, lost)

(* ------------------------------ the handle ----------------------------- *)
\* before cuMpSGEMM_create and after cuMpSGEMM_destroy there is no handle object
NoHandle == [ptr |-> "nullptr"]

\* the handle cuMpSGEMM_create returns: both tables registered, the ring
\* allocated and zeroed, statistics disabled, an empty stream
NewHandle(num_sms) ==
  [ gemm_module              |-> RegisterAll("gemm", gemm_registrations),
    gemm_stridedBatch_module |-> RegisterAll("gemm_stridedBatch", gemm_stridedBatch_registrations),
    num_sms                  |-> num_sms,
    num_kernel_candidates    |-> num_kernel_candidates,
    exp_stats_enabled        |-> FALSE,
    counter_init_disabled    |-> FALSE,
    current_buffer_id        |-> 0,
    dev_total_counter_buffer  |-> [i \in RingIds |-> 0],
    dev_lost_counter_buffer   |-> [i \in RingIds |-> 0],
    host_total_counter_buffer |-> [i \in RingIds |-> 0],
    host_lost_counter_buffer  |-> [i \in RingIds |-> 0],
    cuda_stream              |-> <<>> ]

(* ------------------------------- inputs -------------------------------- *)
\* (T, op_A, op_B, compute_mode) of the calls explored; the real entry points
\* assert op != CUBLAS_OP_C
CallSignatures ==
  { <<"float",     "CUBLAS_OP_N", "CUBLAS_OP_N", "CUMPSGEMM_FP16TCEC">>,
    <<"float",     "CUBLAS_OP_T", "CUBLAS_OP_N", "CUMPSGEMM_TF32TC">>,
    <<"cuComplex", "CUBLAS_OP_C", "CUBLAS_OP_T", "CUMPSGEMM_TF32TCEC">>,
    <<"cuComplex", "CUBLAS_OP_N", "CUBLAS_OP_C", "CUMPSGEMM_FP16TC">>,
    <<"float",     "CUBLAS_OP_N", "CUBLAS_OP_T", "CUMPSGEMM_CUBLAS">> }

\* the signatures and shapes explored with statistics collection switched on
StatsSignatures ==
  { <<"float", "CUBLAS_OP_N", "CUBLAS_OP_N", "CUMPSGEMM_FP16TCEC">> }
StatsShapes == { <<64, 64>>, <<4096, 8192>> }

\* the batch counts explored with statistics collection switched on: the empty
\* batch, the batch of one and every longer one up to the largest
StatsBatchCounts == 0 .. MaxBatch

\* inner dimension of the calls explored
KDim == 64

\* numbers of elements per item the kernel may flag among the m*n it inspects;
\* nothing is counted when statistics are disabled
LostChoices(h, m, n) == IF h.exp_stats_enabled THEN {0, m * n} ELSE {0}

Init ==
  /\ handle_state = "Uninitialized"
  /\ handle = NoHandle
  /\ call = NoCall
  /\ ncalls = 0

(* ------------------------------- actions ------------------------------- *)
\* cuMpSGEMM_create
cuMpSGEMM_create ==
  /\ handle_state = "Uninitialized"
  /\ \E num_sms \in NumSMs : handle' = NewHandle(num_sms)
  /\ handle_state' = "Active"
  /\ UNCHANGED <<call, ncalls>>

\* what new cuMpSGEMM_handle does when the storage cannot be obtained: the
\* throwing operator new raises std::bad_alloc; a build whose operator new
\* does not throw yields nullptr
AllocFailures == {"std::bad_alloc", "nullptr"}

\* cuMpSGEMM_create when the allocation fails. On nullptr the caller's handle
\* is assigned nullptr and CUBLAS_STATUS_INTERNAL_ERROR is returned; on
\* std::bad_alloc the assignment and every return statement are skipped, the
\* exception leaves the function and the caller's handle keeps the value it had
cuMpSGEMM_create_alloc_failure ==
  /\ handle_state = "Uninitialized"
  /\ \E failure \in AllocFailures :
       call' = IF failure = "nullptr"
               THEN [ fn |-> "cuMpSGEMM_create", status |-> "CUBLAS_STATUS_INTERNAL_ERROR",
                      raised |-> "none", handle_out |-> "nullptr" ]
               ELSE [ fn |-> "cuMpSGEMM_create", status |-> "none",
                      raised |-> "std::bad_alloc", handle_out |-> "unassigned" ]
  /\ UNCHANGED <<handle_state, handle, ncalls>>

\* a destroy that waits until the stream has drained
cuMpSGEMM_destroy_after_sync ==
  /\ handle_state = "Active"
  /\ handle.cuda_stream = <<>>
  /\ handle_state' = "Destroyed"
  /\ handle' = NoHandle
  /\ UNCHANGED <<call, ncalls>>

\* cuMpSGEMM_destroy: delete handle
cuMpSGEMM_destroy ==
  /\ handle_state = "Active"
  /\ handle_state' = "Destroyed"
  /\ handle' = NoHandle
  /\ UNCHANGED <<call, ncalls>>

\* cumpsgemm::enable_exp_stats
enable_exp_stats ==
  /\ handle_state = "Active"
  /\ ~handle.exp_stats_enabled
  /\ handle' = [handle EXCEPT !.exp_stats_enabled = TRUE]
  /\ UNCHANGED <<handle_state, call, ncalls>>

\* cumpsgemm::disable_exp_stats
disable_exp_stats ==
  /\ handle_state = "Active"
  /\ handle.exp_stats_enabled
  /\ handle' = [handle EXCEPT !.exp_stats_enabled = FALSE]
  /\ UNCHANGED <<handle_state, call, ncalls>>

\* what the caller sees of the handle when the call starts
Pre(h) ==
  [ current_buffer_id     |-> h.current_buffer_id,
    counter_init_disabled |-> h.counter_init_disabled,
    exp_stats_enabled     |-> h.exp_stats_enabled ]

\* the work already on the stream belongs to earlier calls
Earlier(h) ==
  [h EXCEPT !.cuda_stream = [i \in DOMAIN h.cuda_stream |-> [h.cuda_stream[i] EXCEPT !.cur = FALSE]]]

\* a call of cumpsgemm::gemm<T> (directly, or through cuMpSGEMM_sgemm / cuMpSGEMM_cgemm,
\* which pass no out-parameter)
gemm_call_of(Sigs, Shps, Outs, Pending) ==
  /\ handle_state = "Active"
  /\ ncalls < MaxCalls
  /\ Len(handle.cuda_stream) <= Pending
  /\ \E sig \in Sigs, shape \in Shps, out_given \in Outs :
       \E lost \in LostChoices(handle, shape[1], shape[2]) :
         \E r \in {gemm([h |-> Earlier(handle), log |-> EmptyLog], sig[1], sig[2], sig[3],
                        shape[1], shape[2], KDim, 0, 0, 0, sig[4], out_given, lost)} :
             /\ handle' = r.h
             /\ call' = [ fn |-> "gemm", T |-> sig[1], op_A |-> sig[2], op_B |-> sig[3],
                          compute_mode |-> sig[4], m |-> shape[1], n |-> shape[2], k |-> KDim,
                          batch_count |-> 1, stridea |-> 0, strideb |-> 0, stridec |-> 0,
                          out_given |-> out_given, lost |-> lost,
                          pre |-> Pre(handle), status |-> r.status, log |-> r.log ]
  /\ ncalls' = ncalls + 1
  /\ UNCHANGED handle_state

\* a call of cumpsgemm::gemm_stridedBatch<T> (directly, or through
\* cuMpSGEMM_sgemm_strided_batch / cuMpSGEMM_cgemm_strided_batch)
gemm_stridedBatch_call_of(Sigs, Shps, Outs, Batches, Pending) ==
  /\ handle_state = "Active"
  /\ ncalls < MaxCalls
  /\ Len(handle.cuda_stream) <= Pending
  /\ \E sig \in Sigs, shape \in Shps, out_given \in Outs, batch_count \in Batches :
       \E lost \in LostChoices(handle, shape[1], shape[2]) :
         LET stridea == shape[1] * KDim
             strideb == KDim * shape[2]
             stridec == shape[1] * shape[2]
         IN
         \E r \in {gemm_stridedBatch([h |-> Earlier(handle), log |-> EmptyLog], sig[1], sig[2], sig[3],
                                     shape[1], shape[2], KDim, 0, stridea, 0, strideb, 0, stridec,
                                     batch_count, sig[4], out_given, lost)} :
             /\ handle' = r.h
             /\ call' = [ fn |-> "gemm_stridedBatch", T |-> sig[1], op_A |-> sig[2], op_B |-> sig[3],
                          compute_mode |-> sig[4], m |-> shape[1], n |-> shape[2], k |-> KDim,
                          batch_count |-> batch_count,
                          stridea |-> stridea, strideb |-> strideb, stridec |-> stridec,
                          out_given |-> out_given, lost |-> lost,
                          pre |-> Pre(handle), status |-> r.status, log |-> r.log ]
  /\ ncalls' = ncalls + 1
  /\ UNCHANGED handle_state

\* the calls explored with statistics disabled
gemm_call == gemm_call_of(CallSignatures, Shapes, BOOLEAN, MaxPending)
gemm_stridedBatch_call ==
  gemm_stridedBatch_call_of(CallSignatures, Shapes, BOOLEAN, 0 .. MaxBatch, MaxPending)

\* the calls explored with the statistics switch under the caller's control
stats_gemm_call == gemm_call_of(StatsSignatures, StatsShapes, {FALSE}, MaxPending)
stats_gemm_stridedBatch_call ==
  gemm_stridedBatch_call_of(StatsSignatures, StatsShapes, {FALSE}, StatsBatchCounts, MaxPending)

\* the device executes the operation at the head of the handle's stream
cuda_stream_execute ==
  /\ handle_state = "Active"
  /\ handle.cuda_stream # <<>>
  /\ LET o    == Head(handle.cuda_stream)
         rest == Tail(handle.cuda_stream)
     IN  handle' =
           CASE o.op = "init_counter" ->
                  [handle EXCEPT !.cuda_stream = rest,
                                 !.dev_total_counter_buffer[o.buffer_id] = 0,
                                 !.dev_lost_counter_buffer[o.buffer_id] = 0]
             [] o.op = "kernel" /\ o.total_counter # NULLPTR ->
                  [handle EXCEPT !.cuda_stream = rest,
                                 !.dev_total_counter_buffer[o.total_counter[1]] = @ + o.inspected,
                                 !.dev_lost_counter_buffer[o.lost_counter[1]] = @ + o.flagged]
             [] o.op = "kernel" /\ o.total_counter = NULLPTR ->
                  [handle EXCEPT !.cuda_stream = rest]
             [] o.op = "download" ->
                  [handle EXCEPT !.cuda_stream = rest,
                                 !.host_total_counter_buffer[o.buffer_id] =
                                    handle.dev_total_counter_buffer[o.buffer_id],
                                 !.host_lost_counter_buffer[o.buffer_id] =
                                    handle.dev_lost_counter_buffer[o.buffer_id]]
  /\ UNCHANGED <<handle_state, call, ncalls>>

\* dispatch with statistics collection left disabled
Next ==
  \/ cuMpSGEMM_create
  \/ cuMpSGEMM_create_alloc_failure
  \/ cuMpSGEMM_destroy
  \/ gemm_call
  \/ gemm_stridedBatch_call
  \/ cuda_stream_execute

Spec == Init /\ [][Next]_vars

\* dispatch with the statistics ring in use
NextStats ==
  \/ cuMpSGEMM_create
  \/ cuMpSGEMM_destroy
  \/ enable_exp_stats
  \/ disable_exp_stats
  \/ stats_gemm_call
  \/ stats_gemm_stridedBatch_call
  \/ cuda_stream_execute

SpecStats == Init /\ [][NextStats]_vars

TypeOK ==
  /\ handle_state \in {"Uninitialized", "Active", "Destroyed"}
  /\ ncalls \in 0 .. MaxCalls

(* ------------- the ring with many calls in flight at once -------------- *)
\* device operations that may wait on the stream when a call is issued: enough
\* for one call more than the ring has slots (a gemm puts three on the stream)
RingPending == 3 * RingSize + 1

\* calls with the statistics ring in use, issued while earlier ones still run
ring_gemm_call == gemm_call_of(StatsSignatures, StatsShapes, {FALSE}, RingPending)
ring_gemm_stridedBatch_call ==
  gemm_stridedBatch_call_of(StatsSignatures, StatsShapes, {FALSE}, {MaxBatch}, RingPending)

NextRing ==
  \/ cuMpSGEMM_create
  \/ enable_exp_stats
  \/ ring_gemm_call
  \/ ring_gemm_stridedBatch_call
  \/ cuda_stream_execute

SpecRing == Init /\ [][NextRing]_vars

(* ------------------ signature derivation as a function ------------------ *)
\* the valid inputs of gen_module_code: (T, op_A, op_B, compute_mode)
ValidSignatures == ELEMENT_TYPES \X CUBLAS_OPS \X CUBLAS_OPS \X TC_MODES

\* two valid inputs are drawn
InitCode ==
  /\ handle_state = "Uninitialized"
  /\ handle = NoHandle
  /\ ncalls = 0
  /\ \E x \in ValidSignatures, y \in ValidSignatures :
       call = [fn |-> "gen_module_code", x |-> x, y |-> y, applied |-> FALSE]

\* gen_module_code is applied to both
gen_module_code_apply ==
  /\ call.fn = "gen_module_code"
  /\ ~call.applied
  /\ call' = [ fn |-> "gen_module_code", x |-> call.x, y |-> call.y, applied |-> TRUE,
               code_x |-> gen_module_code(call.x[1], call.x[2], call.x[3], call.x[4]),
               code_y |-> gen_module_code(call.y[1], call.y[2], call.y[3], call.y[4]) ]
  /\ UNCHANGED <<handle_state, handle, ncalls>>

NextCode == gen_module_code_apply

SpecCode == InitCode /\ [][NextCode]_vars

(* -------------------- variant selection as a function ------------------- *)
\* longest candidate list explored
MaxStages == 3

\* tile shapes (smem_m, smem_n) and problem dimensions explored
SelTiles == { <<64, 64>>, <<128, 64>>, <<128, 128>> }
SelDims == {64, 512, 1024, 4096}

\* a module descriptor with the given tile
SelModule(tile) ==
  [ kernel_func |-> <<"candidate", tile[1], tile[2]>>,
    smem_m |-> tile[1], smem_n |-> tile[2], smem_k |-> 32, block_size |-> 128 ]

\* candidate lists of 2 .. MaxStages stages, indexed from 0
SelLists ==
  UNION { [0 .. (num - 1) -> {SelModule(t) : t \in SelTiles}] : num \in 2 .. MaxStages }

\* a candidate list, the device and two problem shapes are drawn
InitSelect ==
  /\ handle_state = "Uninitialized"
  /\ handle = NoHandle
  /\ ncalls = 0
  /\ \E list \in SelLists, num_sms \in NumSMs, batch_count \in 0 .. MaxBatch,
        m \in SelDims, n \in SelDims, m2 \in SelDims, n2 \in SelDims :
       call = [ fn |-> "select", list |-> list, num |-> Cardinality(DOMAIN list),
                num_sms |-> num_sms, batch_count |-> batch_count,
                m |-> m, n |-> n, m2 |-> m2, n2 |-> n2, applied |-> FALSE ]

\* both selections are applied to both shapes
select_apply ==
  /\ call.fn = "select"
  /\ ~call.applied
  /\ call' = [ fn |-> "select", list |-> call.list, num |-> call.num,
               num_sms |-> call.num_sms, batch_count |-> call.batch_count,
               m |-> call.m, n |-> call.n, m2 |-> call.m2, n2 |-> call.n2, applied |-> TRUE,
               sel   |-> gemm_select(call.list, call.num, call.m, call.n, call.num_sms),
               sel2  |-> gemm_select(call.list, call.num, call.m2, call.n2, call.num_sms),
               bsel  |-> gemm_stridedBatch_select(call.list, call.num, call.m, call.n,
                                                  call.batch_count, call.num_sms),
               bsel2 |-> gemm_stridedBatch_select(call.list, call.num, call.m2, call.n2,
                                                  call.batch_count, call.num_sms) ]
  /\ UNCHANGED <<handle_state, handle, ncalls>>

NextSelect == select_apply

SpecSelect == InitSelect /\ [][NextSelect]_vars

(* ---------------- the dynamic launch flag as a function ----------------- *)
\* number of slots of the dynamic launch flag ring
FlagRingSize == 2
FlagIds == 0 .. (FlagRingSize - 1)

\* (flagged, total) pairs a statistics slot may hold; <<0, 0>> is a slot no
\* kernel has counted into
SlotCounts == { <<0, 0>>, <<0, 4>>, <<1, 4>>, <<2, 4>>, <<4, 4>> }

\* ratio thresholds as fractions <<numerator, denominator>>
RatioThresholds == { <<0, 1>>, <<1, 4>>, <<1, 2>>, <<1, 1>> }

\* cumpsgemm::hijack_control::set_dynamic_launch_flag_buffer_by_exp_stats as
\* defined next to the binding: a function with an empty body, which leaves
\* the flag ring and everything else as it was
set_dynamic_launch_flag_buffer_by_exp_stats(h, exp_stats_buffer_A_id, exp_stats_buffer_B_id, dynamic_launch_flag_buffer_id, ratio_threshold) == h

\* the binding of the python module: forwards its four arguments in order
py_set_dynamic_launch_flag_buffer_by_exp_stats(h, exp_stats_id_A, exp_stats_id_B, dynamic_launch_buffer_id, threshold_rate) ==
  set_dynamic_launch_flag_buffer_by_exp_stats(h, exp_stats_id_A, exp_stats_id_B,
                                              dynamic_launch_buffer_id, threshold_rate)

\* a ring of statistics read back to the host, a flag ring and the arguments
\* of one derivation are drawn
InitFlag ==
  /\ handle_state = "Active"
  /\ ncalls = 0
  /\ \E counts \in [RingIds -> SlotCounts], flag \in BOOLEAN :
       handle = [ host_lost_counter_buffer   |-> [i \in RingIds |-> counts[i][1]],
                  host_total_counter_buffer  |-> [i \in RingIds |-> counts[i][2]],
                  dynamic_launch_flag_buffer |-> [i \in FlagIds |-> flag] ]
  /\ \E A \in RingIds, B \in RingIds, flag_id \in FlagIds, t \in RatioThresholds :
       call = [ fn |-> "set_dynamic_launch_flag_buffer_by_exp_stats",
                A |-> A, B |-> B, flag_id |-> flag_id, t |-> t, applied |-> FALSE ]

\* the derivation is applied
set_dynamic_launch_flag_apply ==
  /\ call.fn = "set_dynamic_launch_flag_buffer_by_exp_stats"
  /\ ~call.applied
  /\ handle' = py_set_dynamic_launch_flag_buffer_by_exp_stats(handle, call.A, call.B,
                                                              call.flag_id, call.t)
  /\ call' = [ fn |-> "set_dynamic_launch_flag_buffer_by_exp_stats",
               A |-> call.A, B |-> call.B, flag_id |-> call.flag_id, t |-> call.t,
               applied |-> TRUE, pre |-> handle ]
  /\ UNCHANGED <<handle_state, ncalls>>

NextFlag == set_dynamic_launch_flag_apply

SpecFlag == InitFlag /\ [][NextFlag]_vars

(* ------------- two host threads calling gemm on one handle -------------- *)
\* host threads sharing the handle; each makes one call of cumpsgemm::gemm
\* with statistics enabled and the counter initialisation not suppressed
NumThreads == 2
Threads == 1 .. NumThreads

\* no slot yet / no thread
None == -1

\* the positions of a thread inside cumpsgemm::gemm
ThreadPcs ==
  {"idle", "get_next_buffer_id", "get_next_buffer_id_store", "get_current_buffer_id",
   "init_counter", "launch_kernel", "download_exp_stats", "return", "done"}

\* the handle is Active with statistics enabled and the cursor anywhere in the
\* ring; the callers either serialise their calls with a lock of their own or
\* do not
InitThreads ==
  /\ handle_state = "Active"
  /\ ncalls = 0
  /\ \E num_sms \in NumSMs, cur \in RingIds :
       handle = [NewHandle(num_sms) EXCEPT !.exp_stats_enabled = TRUE, !.current_buffer_id = cur]
  /\ \E serialized \in BOOLEAN :
       call = [ fn |-> "threads", serialized |-> serialized, lock |-> None,
                pc |-> [t \in Threads |-> "idle"],
                loaded |-> [t \in Threads |-> None],
                buffer_id |-> [t \in Threads |-> None],
                zeroed |-> [t \in Threads |-> None],
                launched |-> [t \in Threads |-> None],
                downloaded |-> [t \in Threads |-> None] ]

\* a thread enters gemm whatever the other threads are doing
thread_enter_no_lock(t) ==
  /\ call.fn = "threads"
  /\ call.pc[t] = "idle"
  /\ call' = [call EXCEPT !.pc[t] = "get_next_buffer_id"]
  /\ UNCHANGED <<handle_state, handle, ncalls>>

\* a thread enters gemm; serialising callers take their lock first
thread_enter(t) ==
  /\ call.fn = "threads"
  /\ call.pc[t] = "idle"
  /\ call.serialized => call.lock = None
  /\ call' = [call EXCEPT !.pc[t] = "get_next_buffer_id",
                          !.lock = IF call.serialized THEN t ELSE None]
  /\ UNCHANGED <<handle_state, handle, ncalls>>

\* get_next_buffer_id, first half: the cursor is read
thread_get_next_buffer_id_load(t) ==
  /\ call.fn = "threads"
  /\ call.pc[t] = "get_next_buffer_id"
  /\ call' = [call EXCEPT !.pc[t] = "get_next_buffer_id_store",
                          !.loaded[t] = handle.current_buffer_id]
  /\ UNCHANGED <<handle_state, handle, ncalls>>

\* get_next_buffer_id, second half: the successor of the value read is stored
thread_get_next_buffer_id_store(t) ==
  /\ call.fn = "threads"
  /\ call.pc[t] = "get_next_buffer_id_store"
  /\ handle' = [handle EXCEPT !.current_buffer_id =
                  get_current_buffer_id(
                    get_next_buffer_id([handle EXCEPT !.current_buffer_id = call.loaded[t]]))]
  /\ call' = [call EXCEPT !.pc[t] = "get_current_buffer_id"]
  /\ UNCHANGED <<handle_state, ncalls>>

\* const auto buffer_id = get_current_buffer_id(handle);
thread_get_current_buffer_id(t) ==
  /\ call.fn = "threads"
  /\ call.pc[t] = "get_current_buffer_id"
  /\ call' = [call EXCEPT !.pc[t] = "init_counter",
                          !.buffer_id[t] = get_current_buffer_id(handle)]
  /\ UNCHANGED <<handle_state, handle, ncalls>>

\* init_counter(handle, buffer_id);
thread_init_counter(t) ==
  /\ call.fn = "threads"
  /\ call.pc[t] = "init_counter"
  /\ handle' = init_counter(handle, call.buffer_id[t])
  /\ call' = [call EXCEPT !.pc[t] = "launch_kernel", !.zeroed[t] = call.buffer_id[t]]
  /\ UNCHANGED <<handle_state, ncalls>>

\* launch_kernel<T>(..., dev_total_counter_buffer + buffer_id,
\* dev_lost_counter_buffer + buffer_id, cuda_stream);
thread_launch_kernel(t) ==
  /\ call.fn = "threads"
  /\ call.pc[t] = "launch_kernel"
  /\ \E sig \in StatsSignatures :
       handle' = Enqueue(handle,
                   launch_kernel(
                     gemm_select(CandidateList(handle.gemm_module,
                                               gen_module_code(sig[1], sig[2], sig[3], sig[4])),
                                 handle.num_kernel_candidates, 64, 64, handle.num_sms).gemm_module,
                     64, 64, KDim, 0, 0, 0,
                     CounterPtr(call.buffer_id[t]), CounterPtr(call.buffer_id[t]), 0))
  /\ call' = [call EXCEPT !.pc[t] = "download_exp_stats", !.launched[t] = call.buffer_id[t]]
  /\ UNCHANGED <<handle_state, ncalls>>

\* download_exp_stats(handle, get_current_buffer_id(handle)): the cursor is
\* read again
thread_download_exp_stats(t) ==
  /\ call.fn = "threads"
  /\ call.pc[t] = "download_exp_stats"
  /\ handle' = download_exp_stats(handle, get_current_buffer_id(handle))
  /\ call' = [call EXCEPT !.pc[t] = "return", !.downloaded[t] = get_current_buffer_id(handle)]
  /\ UNCHANGED <<handle_state, ncalls>>

\* return CUBLAS_STATUS_SUCCESS; serialising callers release their lock
thread_return(t) ==
  /\ call.fn = "threads"
  /\ call.pc[t] = "return"
  /\ call' = [call EXCEPT !.pc[t] = "done", !.lock = None]
  /\ UNCHANGED <<handle_state, handle, ncalls>>

NextThreads ==
  \E t \in Threads :
    \/ thread_enter(t)
    \/ thread_get_next_buffer_id_load(t)
    \/ thread_get_next_buffer_id_store(t)
    \/ thread_get_current_buffer_id(t)
    \/ thread_init_counter(t)
    \/ thread_launch_kernel(t)
    \/ thread_download_exp_stats(t)
    \/ thread_return(t)

SpecThreads == InitThreads /\ [][NextThreads]_vars

(* ------------- the global scalars of the python control module ---------- *)
\* a double as its binary exponent and its 53-bit significand, the significand
\* split into the upper 24 bits (hi) and the lower 29 bits (lo)
DOUBLE_0_1 == [exp |-> -4, hi |-> 13421772, lo |-> 429496730]
DOUBLE_0_5 == [exp |-> -1, hi |-> 8388608, lo |-> 0]
DOUBLE_0_7 == [exp |-> -1, hi |-> 11744051, lo |-> 107374182]

\* thresholds a caller sets
LoseRatioThresholds == {DOUBLE_0_1, DOUBLE_0_5, DOUBLE_0_7}
DimThresholds == {0, 64, 128}

\* conversion of a double to float: the significand is rounded to 24 bits, to
\* nearest, ties to even; a carry out of the significand moves the exponent
double_to_float(d) ==
  IF d.lo > 268435456 \/ (d.lo = 268435456 /\ d.hi % 2 = 1)
  THEN IF d.hi + 1 = 16777216
       THEN [exp |-> d.exp + 1, man |-> 8388608]
       ELSE [exp |-> d.exp, man |-> d.hi + 1]
  ELSE [exp |-> d.exp, man |-> d.hi]

\* a float handed to python becomes a double again, exactly
float_to_double(f) == [exp |-> f.exp, hi |-> f.man, lo |-> 0]

\* the values given to the setters so far: the defaults before any setter ran
GivenDefaults ==
  [ lose_ratio_threshold |-> DOUBLE_0_1, auto_kernel_selection |-> FALSE,
    cublas_dim_mn_threshold |-> 128, cublas_dim_k_threshold |-> 64 ]

\* the module has been loaded: the four globals hold their initialisers
InitGlobals ==
  /\ handle_state = "Uninitialized"
  /\ ncalls = 0
  /\ handle = [ global_lose_ratio_threshold |-> DOUBLE_0_1,
                global_auto_kernel_selection_enabled |-> 0,
                global_cublas_dim_mn_threshold |-> 128,
                global_cublas_dim_k_threshold |-> 64 ]
  /\ call = [fn |-> "import", ret |-> "none", given |-> GivenDefaults]

enable_auto_kernel_selection ==
  /\ "given" \in DOMAIN call
  /\ handle' = [handle EXCEPT !.global_auto_kernel_selection_enabled = 1]
  /\ call' = [ fn |-> "enable_auto_kernel_selection", ret |-> "none",
               given |-> [call.given EXCEPT !.auto_kernel_selection = TRUE] ]
  /\ UNCHANGED <<handle_state, ncalls>>

disable_auto_kernel_selection ==
  /\ "given" \in DOMAIN call
  /\ handle' = [handle EXCEPT !.global_auto_kernel_selection_enabled = 0]
  /\ call' = [ fn |-> "disable_auto_kernel_selection", ret |-> "none",
               given |-> [call.given EXCEPT !.auto_kernel_selection = FALSE] ]
  /\ UNCHANGED <<handle_state, ncalls>>

\* return global_auto_kernel_selection_enabled; (int to bool)
is_auto_kernel_selection_enabled ==
  /\ "given" \in DOMAIN call
  /\ call' = [ fn |-> "is_auto_kernel_selection_enabled",
               ret |-> (handle.global_auto_kernel_selection_enabled # 0),
               given |-> call.given ]
  /\ UNCHANGED <<handle_state, handle, ncalls>>

set_global_lose_ratio_threshold ==
  /\ "given" \in DOMAIN call
  /\ \E a \in LoseRatioThresholds :
       /\ handle' = [handle EXCEPT !.global_lose_ratio_threshold = a]
       /\ call' = [ fn |-> "set_global_lose_ratio_threshold", ret |-> "none",
                    given |-> [call.given EXCEPT !.lose_ratio_threshold = a] ]
  /\ UNCHANGED <<handle_state, ncalls>>

\* float get_global_lose_ratio_threshold() { return global_lose_ratio_threshold; }
\* the double is converted to the return type float; the caller sees that float
get_global_lose_ratio_threshold ==
  /\ "given" \in DOMAIN call
  /\ call' = [ fn |-> "get_global_lose_ratio_threshold",
               ret |-> float_to_double(double_to_float(handle.global_lose_ratio_threshold)),
               given |-> call.given ]
  /\ UNCHANGED <<handle_state, handle, ncalls>>

get_global_cublas_dim_mn_threshold ==
  /\ "given" \in DOMAIN call
  /\ call' = [ fn |-> "get_global_cublas_dim_mn_threshold",
               ret |-> handle.global_cublas_dim_mn_threshold, given |-> call.given ]
  /\ UNCHANGED <<handle_state, handle, ncalls>>

set_global_cublas_dim_mn_threshold ==
  /\ "given" \in DOMAIN call
  /\ \E dim \in DimThresholds :
       /\ handle' = [handle EXCEPT !.global_cublas_dim_mn_threshold = dim]
       /\ call' = [ fn |-> "set_global_cublas_dim_mn_threshold", ret |-> "none",
                    given |-> [call.given EXCEPT !.cublas_dim_mn_threshold = dim] ]
  /\ UNCHANGED <<handle_state, ncalls>>

get_global_cublas_dim_k_threshold ==
  /\ "given" \in DOMAIN call
  /\ call' = [ fn |-> "get_global_cublas_dim_k_threshold",
               ret |-> handle.global_cublas_dim_k_threshold, given |-> call.given ]
  /\ UNCHANGED <<handle_state, handle, ncalls>>

set_global_cublas_dim_k_threshold ==
  /\ "given" \in DOMAIN call
  /\ \E dim \in DimThresholds :
       /\ handle' = [handle EXCEPT !.global_cublas_dim_k_threshold = dim]
       /\ call' = [ fn |-> "set_global_cublas_dim_k_threshold", ret |-> "none",
                    given |-> [call.given EXCEPT !.cublas_dim_k_threshold = dim] ]
  /\ UNCHANGED <<handle_state, ncalls>>

NextGlobals ==
  \/ enable_auto_kernel_selection
  \/ disable_auto_kernel_selection
  \/ is_auto_kernel_selection_enabled
  \/ set_global_lose_ratio_threshold
  \/ get_global_lose_ratio_threshold
  \/ get_global_cublas_dim_mn_threshold
  \/ set_global_cublas_dim_mn_threshold
  \/ get_global_cublas_dim_k_threshold
  \/ set_global_cublas_dim_k_threshold

SpecGlobals == InitGlobals /\ [][NextGlobals]_vars

(* --------------------- loss ratios as functions ------------------------ *)
\* most statistics pairs get_last_exp_stats hands to get_lost_rate
MaxRecorded == 2

\* lists of (flagged, total) pairs of the recorded slots
RecordedLists == UNION { [1 .. len -> SlotCounts] : len \in 0 .. MaxRecorded }

\* a quotient of two counts as the fraction <<numerator, denominator>>; 0. is <<0, 1>>
ZeroRatio == <<0, 1>>

\* the quotient taken whether or not total_count is positive
get_lose_ratio_unguarded(r) == <<r[1], r[2]>>

\* get_lose_ratio, from the pair r = get_exp_stats(buffer_id) on:
\*   if (total_count > 0) return static_cast<double>(lose_count) / total_count;
\*   return 0.;
get_lose_ratio(r) == IF r[2] > 0 THEN <<r[1], r[2]>> ELSE ZeroRatio

\* the sums get_lost_rate accumulates over the list: <<lost_count, total_count>>
RECURSIVE lost_rate_sums(_)
lost_rate_sums(l) ==
  IF l = <<>> THEN <<0, 0>>
  ELSE <<lost_rate_sums(Tail(l))[1] + Head(l)[1], lost_rate_sums(Tail(l))[2] + Head(l)[2]>>

\* get_lost_rate, from the list l = get_last_exp_stats() on
get_lost_rate(l) ==
  IF lost_rate_sums(l)[2] > 0 THEN <<lost_rate_sums(l)[1], lost_rate_sums(l)[2]>> ELSE ZeroRatio

\* the pair of one slot and a list of recorded pairs are drawn
InitRatio ==
  /\ handle_state = "Uninitialized"
  /\ handle = NoHandle
  /\ ncalls = 0
  /\ \E r \in SlotCounts, l \in RecordedLists :
       call = [fn |-> "lose_ratio", r |-> r, l |-> l, applied |-> FALSE]

\* both functions are applied
lose_ratio_apply ==
  /\ call.fn = "lose_ratio"
  /\ ~call.applied
  /\ call' = [ fn |-> "lose_ratio", r |-> call.r, l |-> call.l, applied |-> TRUE,
               lose_ratio |-> get_lose_ratio(call.r),
               lost_rate  |-> get_lost_rate(call.l) ]
  /\ UNCHANGED <<handle_state, handle, ncalls>>

NextRatio == lose_ratio_apply

SpecRatio == InitRatio /\ [][NextRatio]_vars

(* ------------------ the grid sizes of the two launches ----------------- *)
\* row and column counts the grid sizes are computed for: 1, sizes inside,
\* on and next to a multiple of the tile edge
GridDims == {1, 32, 33, 64, 65, 96, 128, 129, 192}

\* variants the launches are given: registered ones of the batched table
GridModules ==
  { generate_gemm_module("gemm_stridedBatch", gemm_stridedBatch_registrations[i]) :
      i \in {1, Len(gemm_stridedBatch_registrations)} }

InitGrid ==
  /\ handle_state = "Uninitialized"
  /\ handle = NoHandle
  /\ ncalls = 0
  /\ \E gemm_module \in GridModules, m \in GridDims, n \in GridDims, batch_count \in 0 .. MaxBatch :
       call = [ fn |-> "launch_kernel", gemm_module |-> gemm_module, m |-> m, n |-> n,
                batch_count |-> batch_count, applied |-> FALSE ]

\* both launch_kernel overloads are applied to the same variant and shape
launch_kernel_apply ==
  /\ call.fn = "launch_kernel"
  /\ ~call.applied
  /\ call' = [ fn |-> "launch_kernel", gemm_module |-> call.gemm_module, m |-> call.m, n |-> call.n,
               batch_count |-> call.batch_count, applied |-> TRUE,
               launch  |-> launch_kernel(call.gemm_module, call.m, call.n, KDim, 0, 0, 0,
                                         NULLPTR, NULLPTR, 0),
               num_blocks_per_gemm |-> num_blocks_per_gemm(call.gemm_module, call.m, call.n),
               batched |-> launch_kernel_stridedBatch(call.gemm_module, call.m, call.n, KDim, 0, 0, 0,
                                                      call.batch_count, NULLPTR, NULLPTR, 0) ]
  /\ UNCHANGED <<handle_state, handle, ncalls>>

NextGrid == launch_kernel_apply

SpecGrid == InitGrid /\ [][NextGrid]_vars

(* ----------- the dispatch functions entered with either flag ----------- *)
\* the handle as a dispatch function can find it on entry: between the calls
\* of one thread counter_init_disabled is clear; after a sub-call of a
\* decomposed batch, where the call of another thread sharing the handle can
\* fall, it is set.  The stream is empty.
EntryHandles ==
  { [h0 EXCEPT !.exp_stats_enabled = enabled, !.counter_init_disabled = disabled,
               !.current_buffer_id = id] :
      h0 \in {NewHandle(1)}, enabled \in BOOLEAN, disabled \in BOOLEAN, id \in RingIds }

InitEntry ==
  /\ handle_state = "Active"
  /\ handle \in EntryHandles
  /\ ncalls = 0
  /\ \E fn \in {"gemm", "gemm_stridedBatch"}, shape \in StatsShapes, batch_count \in StatsBatchCounts :
       call = [ fn |-> fn, m |-> shape[1], n |-> shape[2], batch_count |-> batch_count,
                applied |-> FALSE ]

\* the function named is applied to the handle
dispatch_apply ==
  /\ ~call.applied
  /\ \E sig \in StatsSignatures :
       \E r \in { IF call.fn = "gemm"
                  THEN gemm([h |-> handle, log |-> EmptyLog], sig[1], sig[2], sig[3],
                            call.m, call.n, KDim, 0, 0, 0, sig[4], FALSE, 0)
                  ELSE gemm_stridedBatch([h |-> handle, log |-> EmptyLog], sig[1], sig[2], sig[3],
                                         call.m, call.n, KDim, 0, call.m * KDim, 0, KDim * call.n,
                                         0, call.m * call.n, call.batch_count, sig[4], FALSE, 0) } :
         /\ handle' = r.h
         /\ call' = [ fn |-> call.fn, m |-> call.m, n |-> call.n, batch_count |-> call.batch_count,
                      applied |-> TRUE, pre |-> Pre(handle), status |-> r.status, log |-> r.log ]
  /\ UNCHANGED <<handle_state, ncalls>>

NextEntry == dispatch_apply

SpecEntry == InitEntry /\ [][NextEntry]_vars

(* ================================ claims ================================ *)
MinOf(S) == CHOOSE i \in S : \A j \in S : i <= j

\* C1: gen_module_code is injective over the valid inputs: two distinct tuples
\* (element kind, op_A, op_B, reduced-precision mode) get distinct codes, and
\* each code is an index of the table
C1_Injective ==
  (call.fn = "gen_module_code" /\ call.applied) =>
     /\ (call.x # call.y => call.code_x # call.code_y)
     /\ call.code_x \in ModuleCodes
     /\ call.code_y \in ModuleCodes

\* two distinct valid tuples have been mapped
C1_Witness ==
  /\ call.fn = "gen_module_code" /\ call.applied
  /\ call.x # call.y
  /\ call.x[1] = "cuComplex" /\ call.y[1] = "float"
  /\ call.x[2] = "CUBLAS_OP_C" /\ call.y[2] = "CUBLAS_OP_T"

\* the stages of the scan (all but the last) the estimate est qualifies
Qualifying(list, num, est(_), num_sms) ==
  {i \in 0 .. (num - 2) : est(list[i].smem_m * list[i].smem_n) > num_sms * 32}

\* the stage the rule names: the first qualifying one, the last if none
RuleStage(list, num, est(_), num_sms) ==
  IF Qualifying(list, num, est, num_sms) = {} THEN num - 1
  ELSE MinOf(Qualifying(list, num, est, num_sms))

\* C3: the non-batched selection is the first stage i before the last with
\* (m*n) / (tile_rows_i * tile_cols_i) > num_sms * 32, and the last stage if
\* there is none
C3_NonBatchedSelection ==
  (call.fn = "select" /\ call.applied) =>
     LET est(area) == (call.m * call.n) \div area
         i == RuleStage(call.list, call.num, est, call.num_sms)
     IN  /\ call.sel.module_id = i
         /\ call.sel.gemm_module = call.list[i]

\* a list of three stages where stage 0 does not qualify and stage 1 does:
\* the scan passes stage 0 and stops at stage 1
C3_Witness ==
  /\ call.fn = "select" /\ call.applied /\ call.num = 3
  /\ LET est(area) == (call.m * call.n) \div area
     IN  Qualifying(call.list, call.num, est, call.num_sms) = {1}
  /\ call.sel.module_id = 1

\* C4: the batched selection uses the same rule with the estimate multiplied
\* by batch_count: ((m*n) / (tile_rows_i * tile_cols_i)) * batch_count
C4_BatchedSelection ==
  (call.fn = "select" /\ call.applied) =>
     LET est(area) == ((call.m * call.n) \div area) * call.batch_count
         i == RuleStage(call.list, call.num, est, call.num_sms)
     IN  /\ call.bsel.module_id = i
         /\ call.bsel.gemm_module = call.list[i]

\* the batch count makes a stage qualify that the single item does not
C4_Witness ==
  /\ call.fn = "select" /\ call.applied /\ call.batch_count >= 2
  /\ call.bsel.module_id = 0
  /\ call.sel.module_id = call.num - 1

TileArea(module) == module.smem_m * module.smem_n

\* registration order from small tile to large tile
SmallToLarge(list, num) ==
  \A i \in 0 .. (num - 2) : TileArea(list[i]) <= TileArea(list[i + 1])

\* C5 as stated: with m*n <= m'*n' the stage selected for (m', n') is never a
\* smaller-tile stage, and the selection only moves toward the last stage
C5_Original ==
  (call.fn = "select" /\ call.applied /\ call.m * call.n <= call.m2 * call.n2) =>
     /\ call.sel2.module_id >= call.sel.module_id
     /\ call.bsel2.module_id >= call.bsel.module_id
     /\ SmallToLarge(call.list, call.num) =>
          /\ TileArea(call.sel2.gemm_module) >= TileArea(call.sel.gemm_module)
          /\ TileArea(call.bsel2.gemm_module) >= TileArea(call.bsel.gemm_module)

\* C5 amended: with m*n <= m'*n' the stage index selected for (m', n') is never
\* larger than the one selected for (m, n): growing m*n moves the selection
\* from the last (default) stage toward stage 0, in both functions
C5_Monotone ==
  (call.fn = "select" /\ call.applied /\ call.m * call.n <= call.m2 * call.n2) =>
     /\ call.sel2.module_id <= call.sel.module_id
     /\ call.bsel2.module_id <= call.bsel.module_id

\* the larger problem moved the selection off the last stage
C5_Witness ==
  /\ call.fn = "select" /\ call.applied
  /\ call.m * call.n < call.m2 * call.n2
  /\ call.sel.module_id = call.num - 1
  /\ call.sel2.module_id < call.num - 1
\* the signatures the public GEMM entry points can produce: the real entry
\* points assert against CUBLAS_OP_C, the complex ones take all three ops
EntryPointSignatures ==
  {sig \in ValidSignatures :
     sig[1] = "float" => (sig[2] # "CUBLAS_OP_C" /\ sig[3] # "CUBLAS_OP_C")}

\* the last call is a dispatch call on a signature of the entry points
EntryPointCall ==
  /\ call.fn \in {"gemm", "gemm_stridedBatch"}
  /\ <<call.T, call.op_A, call.op_B, call.compute_mode>> \in EntryPointSignatures

\* C2: once cuMpSGEMM_create has returned, every signature the public entry
\* points can produce has stage 0 and stage 1 registered in the non-batched
\* table and in the strided-batch table, and no launch of gemm or
\* gemm_stridedBatch on such a signature uses an unregistered element
C2_AllRegistered ==
  /\ handle_state = "Active" =>
       \A sig \in EntryPointSignatures : \A stage \in 0 .. 1 :
          LET code == gen_module_code(sig[1], sig[2], sig[3], sig[4])
          IN  /\ code \in DOMAIN handle.gemm_module
              /\ code \in DOMAIN handle.gemm_stridedBatch_module
              /\ stage \in Stages
              /\ ModuleAt(handle.gemm_module, code, stage) # UnsetModule
              /\ ModuleAt(handle.gemm_stridedBatch_module, code, stage) # UnsetModule
  /\ EntryPointCall =>
       \A i \in DOMAIN call.log.launches : call.log.launches[i].gemm_module # UnsetModule

\* a batched complex call with a conjugated operand has launched a registered kernel
C2_Witness ==
  /\ handle_state = "Active"
  /\ call.fn = "gemm_stridedBatch" /\ call.T = "cuComplex" /\ call.op_A = "CUBLAS_OP_C"
  /\ Len(call.log.launches) = 1
  /\ call.log.launches[1].batched
  /\ call.log.launches[1].gemm_module # UnsetModule

\* the last call went through variant selection and was given an out-parameter,
\* and the handle it ran on is still there
SelectingCall ==
  /\ handle_state = "Active"
  /\ call.fn \in {"gemm", "gemm_stridedBatch"}
  /\ call.out_given
  /\ \/ call.fn = "gemm"
     \/ call.fn = "gemm_stridedBatch" /\ ~is_large_problem(call.m, call.n)

\* the candidate list the last call looked up
CallCandidateList ==
  CandidateList(IF call.fn = "gemm" THEN handle.gemm_module ELSE handle.gemm_stridedBatch_module,
                gen_module_code(call.T, call.op_A, call.op_B, call.compute_mode))

\* C6: for a gemm call and a below-cutoff gemm_stridedBatch call with an
\* out-parameter, the reported stage index i is in 0 .. num_kernel_candidates-1
\* and the one kernel launched is candidate_list[i], the default last stage
\* included
C6_ReportedStage ==
  SelectingCall =>
     /\ call.log.used_kernel_modeule_id \in 0 .. (num_kernel_candidates - 1)
     /\ Len(call.log.launches) = 1
     /\ call.log.launches[1].gemm_module = CallCandidateList[call.log.used_kernel_modeule_id]
     /\ call.log.launches[1].batched = (call.fn = "gemm_stridedBatch")

\* a below-cutoff batched call where no stage qualifies: the default last
\* stage is reported and launched
C6_Witness ==
  /\ SelectingCall /\ call.fn = "gemm_stridedBatch"
  /\ call.log.used_kernel_modeule_id = num_kernel_candidates - 1
  /\ Len(call.log.launches) = 1
  /\ call.log.launches[1].gemm_module = CallCandidateList[num_kernel_candidates - 1]

\* the launches of the last call are batch_count non-batched ones
Decomposed ==
  /\ Len(call.log.launches) = call.batch_count
  /\ \A i \in DOMAIN call.log.launches : ~call.log.launches[i].batched

\* the last call made exactly one launch, a batched one
OneBatchedLaunch ==
  /\ Len(call.log.launches) = 1
  /\ call.log.launches[1].batched

\* C7 as stated: with m*n at or above the cutoff 2^24 gemm_stridedBatch makes
\* batch_count non-batched launches and no batched one, below it exactly one
\* batched launch
C7_Original ==
  call.fn = "gemm_stridedBatch" =>
     IF call.m * call.n >= 16777216 THEN Decomposed ELSE OneBatchedLaunch

\* C7 amended: with m*n strictly above the cutoff 2^24 gemm_stridedBatch makes
\* batch_count non-batched launches and no batched one; with m*n at or below
\* the cutoff it makes exactly one batched launch
C7_Threshold ==
  call.fn = "gemm_stridedBatch" =>
     IF call.m * call.n > 16777216 THEN Decomposed ELSE OneBatchedLaunch

\* a batch above the cutoff was decomposed into two non-batched launches
C7_Witness ==
  /\ call.fn = "gemm_stridedBatch"
  /\ call.m * call.n > 16777216
  /\ call.batch_count = 2
  /\ Decomposed

\* the device has run everything the last call put on the stream
Completed ==
  /\ handle_state = "Active"
  /\ \A i \in DOMAIN handle.cuda_stream : ~handle.cuda_stream[i].cur

\* the last call is a decomposed batch of at least one item, entered with
\* statistics enabled and the suppression flag clear
DecomposedStatsCall ==
  /\ call.fn = "gemm_stridedBatch"
  /\ is_large_problem(call.m, call.n)
  /\ call.pre.exp_stats_enabled
  /\ ~call.pre.counter_init_disabled
  /\ call.batch_count >= 1

\* the slot one advance of the cursor leads to from where the call started
SlotAfterOneAdvance == (call.pre.current_buffer_id + 1) % RingSize

\* C8: a decomposed batch with statistics enabled advances the ring cursor
\* once and zeroes the target slot once, every one of its batch_count launches
\* gets the counter pointers of that slot, and once they have all run the slot
\* holds batch_count times the (flagged, total) of one item
C8_SharedSlot ==
  DecomposedStatsCall =>
     /\ call.log.advances = 1
     /\ call.log.inits = <<SlotAfterOneAdvance>>
     /\ Len(call.log.launches) = call.batch_count
     /\ \A i \in DOMAIN call.log.launches :
           /\ call.log.launches[i].total_counter = CounterPtr(SlotAfterOneAdvance)
           /\ call.log.launches[i].lost_counter = CounterPtr(SlotAfterOneAdvance)
     /\ Completed =>
           /\ handle.current_buffer_id = SlotAfterOneAdvance
           /\ handle.dev_total_counter_buffer[SlotAfterOneAdvance] = call.batch_count * call.m * call.n
           /\ handle.dev_lost_counter_buffer[SlotAfterOneAdvance] = call.batch_count * call.lost
           /\ get_exp_stats(handle, SlotAfterOneAdvance)
                = <<call.batch_count * call.lost, call.batch_count * call.m * call.n>>

\* a decomposed batch of several items, each flagging elements, was the third
\* call on the handle and has run to the end
C8_Witness ==
  /\ DecomposedStatsCall /\ Completed
  /\ call.batch_count >= 2 /\ call.lost > 0
  /\ ncalls = 3
  /\ call.log.advances = 1
  /\ get_exp_stats(handle, SlotAfterOneAdvance)
       = <<call.batch_count * call.lost, call.batch_count * call.m * call.n>>

\* the last call is a single gemm entered with statistics enabled and the
\* suppression flag clear
StatsGemmCall ==
  /\ call.fn = "gemm"
  /\ call.pre.exp_stats_enabled
  /\ ~call.pre.counter_init_disabled

\* C9: in every slot flagged_count <= total_count, on the device and in the
\* host mirror; and once the launch of a single non-suppressed gemm call has
\* run, the slot it used holds total_count = m*n, with nothing left from the
\* slot's previous use
C9_StatsInvariant ==
  handle_state = "Active" =>
     /\ \A id \in RingIds :
           /\ handle.dev_lost_counter_buffer[id] <= handle.dev_total_counter_buffer[id]
           /\ handle.host_lost_counter_buffer[id] <= handle.host_total_counter_buffer[id]
     /\ (StatsGemmCall /\ Completed) =>
           /\ handle.dev_total_counter_buffer[handle.current_buffer_id] = call.m * call.n
           /\ handle.dev_lost_counter_buffer[handle.current_buffer_id] = call.lost

\* a third call on the handle has run and the slot holds the counts of that
\* one call
C9_Witness ==
  /\ StatsGemmCall /\ Completed
  /\ ncalls = 3
  /\ call.lost > 0
  /\ handle.dev_total_counter_buffer[handle.current_buffer_id] = call.m * call.n

\* C10: after a gemm call with statistics enabled, get_current_buffer_id is
\* the slot whose counter pointers the call's launch received and whose
\* download the call queued, it differs from the slot current before the call,
\* and once the call's work has run get_exp_stats of that slot is the call's
\* (flagged, total)
C10_CurrentSlot ==
  (StatsGemmCall /\ handle_state = "Active") =>
     /\ Len(call.log.launches) = 1
     /\ call.log.launches[1].total_counter = CounterPtr(get_current_buffer_id(handle))
     /\ call.log.launches[1].lost_counter = CounterPtr(get_current_buffer_id(handle))
     /\ call.log.downloads = <<get_current_buffer_id(handle)>>
     /\ get_current_buffer_id(handle) # call.pre.current_buffer_id
     /\ Completed =>
           get_exp_stats(handle, get_current_buffer_id(handle)) = <<call.lost, call.m * call.n>>

\* a second statistics call has run and its slot reads back its own counts
C10_Witness ==
  /\ StatsGemmCall /\ Completed
  /\ ncalls >= 2
  /\ call.lost = call.m * call.n
  /\ call.log.downloads = <<get_current_buffer_id(handle)>>
  /\ get_exp_stats(handle, get_current_buffer_id(handle)) = <<call.lost, call.m * call.n>>

\* the last call is a gemm_stridedBatch at or below the cutoff, entered with
\* statistics enabled
BatchedStatsCall ==
  /\ call.fn = "gemm_stridedBatch"
  /\ ~is_large_problem(call.m, call.n)
  /\ call.pre.exp_stats_enabled

SlotOf(o) ==
  IF o.op = "kernel" THEN o.total_counter ELSE CounterPtr(o.buffer_id)

\* the call an operation waiting on the stream belongs to: every call with
\* statistics enabled starts with one init_counter, so the segment number is
\* the number of init_counter operations up to it (0: a call whose zeroing has
\* already run)
SegmentOf(stream, i) ==
  Cardinality({j \in 1 .. i : stream[j].op = "init_counter"})

\* two calls with unfinished device work use the same statistics slot
SharedSlotInFlight ==
  \E i, j \in DOMAIN handle.cuda_stream :
     /\ i < j
     /\ SegmentOf(handle.cuda_stream, i) # SegmentOf(handle.cuda_stream, j)
     /\ SlotOf(handle.cuda_stream[i]) # NULLPTR
     /\ SlotOf(handle.cuda_stream[i]) = SlotOf(handle.cuda_stream[j])

\* the calls with statistics that have unfinished device work
InFlightStatsCalls ==
  {SegmentOf(handle.cuda_stream, i) :
     i \in {j \in DOMAIN handle.cuda_stream : SlotOf(handle.cuda_stream[j]) # NULLPTR}}

\* C12 as stated: whatever the sequence of calls, no two calls with device work
\* in flight use the same statistics slot (the sub-calls of one decomposed
\* batch are one call here)
C12_Original ==
  handle_state = "Active" => ~SharedSlotInFlight

\* C12 amended: while no more calls with statistics are in flight than the ring
\* has slots, no two of them use the same slot
C12_RingBound ==
  (handle_state = "Active" /\ Cardinality(InFlightStatsCalls) <= RingSize) => ~SharedSlotInFlight

\* as many calls in flight as the ring has slots, one of them a decomposed batch
\* whose launches share its slot
C12_Witness ==
  /\ handle_state = "Active"
  /\ Cardinality(InFlightStatsCalls) = RingSize
  /\ ~SharedSlotInFlight
  /\ \E i, j \in DOMAIN handle.cuda_stream :
        /\ i < j
        /\ handle.cuda_stream[i].op = "kernel" /\ handle.cuda_stream[j].op = "kernel"
        /\ SlotOf(handle.cuda_stream[i]) # NULLPTR
        /\ SlotOf(handle.cuda_stream[i]) = SlotOf(handle.cuda_stream[j])

\* the last call is a dispatch call entered with statistics enabled
StatsCall ==
  /\ call.fn \in {"gemm", "gemm_stridedBatch"}
  /\ call.pre.exp_stats_enabled

\* C13: the ring cursor stays in 0 .. RingSize-1 and advances cyclically: a
\* call leaves it where it was or at the next slot modulo the ring size, and
\* the counter pointers every launch receives address a slot of the ring
C13_CursorInRing ==
  /\ handle_state = "Active" => get_current_buffer_id(handle) \in 0 .. (RingSize - 1)
  /\ StatsCall =>
       /\ call.log.advances \in {0, 1}
       /\ \A i \in DOMAIN call.log.inits : call.log.inits[i] \in 0 .. (RingSize - 1)
       /\ \A i \in DOMAIN call.log.launches :
            /\ Len(call.log.launches[i].total_counter) = 1
            /\ call.log.launches[i].total_counter[1] \in 0 .. (RingSize - 1)
            /\ call.log.launches[i].lost_counter = call.log.launches[i].total_counter
       /\ handle_state = "Active" =>
            get_current_buffer_id(handle)
              = (call.pre.current_buffer_id + call.log.advances) % RingSize

\* the cursor has wrapped: a call that started on the last slot launched on slot 0
C13_Witness ==
  /\ StatsCall /\ handle_state = "Active"
  /\ call.pre.current_buffer_id = RingSize - 1
  /\ call.log.advances = 1
  /\ get_current_buffer_id(handle) = 0
  /\ Len(call.log.launches) >= 1
  /\ call.log.launches[1].total_counter = <<0>>

\* one flag derivation has been applied to two slots whose ratios are defined
DerivedFlagCall ==
  /\ call.fn = "set_dynamic_launch_flag_buffer_by_exp_stats"
  /\ call.applied
  /\ call.pre.host_total_counter_buffer[call.A] > 0
  /\ call.pre.host_total_counter_buffer[call.B] > 0

\* the ratio flagged/total of a slot before the derivation, as <<flagged, total>>
RatioOf(id) ==
  <<call.pre.host_lost_counter_buffer[id], call.pre.host_total_counter_buffer[id]>>

\* the larger of two ratios with positive denominators
MaxRatio(r, s) == IF r[1] * s[2] >= s[1] * r[2] THEN r ELSE s

\* ratio r is strictly above threshold t
Above(r, t) == r[1] * t[2] > t[1] * r[2]

LaunchFails(launch) == launch.grid_size = 0

\* the last call is a dispatch call one of whose kernel launches failed
FailedLaunchCall ==
  /\ call.fn \in {"gemm", "gemm_stridedBatch"}
  /\ \E i \in DOMAIN call.log.launches : LaunchFails(call.log.launches[i])

\* C15: a launch failure is propagated as a status code: a gemm or
\* gemm_stridedBatch call whose kernel launch fails returns a status other
\* than CUBLAS_STATUS_SUCCESS
C15_Original ==
  FailedLaunchCall => call.status # "CUBLAS_STATUS_SUCCESS"

\* a strided-batch call of a registered signature with an empty batch below
\* the cutoff: its one launch has an empty grid, and it returned success
C15_Witness ==
  /\ FailedLaunchCall
  /\ call.fn = "gemm_stridedBatch"
  /\ call.compute_mode = "CUMPSGEMM_FP16TCEC"
  /\ call.batch_count = 0
  /\ ~is_large_problem(call.m, call.n)
  /\ Len(call.log.launches) = 1
  /\ call.status = "CUBLAS_STATUS_SUCCESS"

\* the last call is a dispatch call with operand modes the entry points accept
\* and a compute mode that is none of the four reduced-precision modes
UnsupportedModeCall ==
  /\ call.fn \in {"gemm", "gemm_stridedBatch"}
  /\ call.T = "float" => (call.op_A # "CUBLAS_OP_C" /\ call.op_B # "CUBLAS_OP_C")
  /\ call.compute_mode \in COMPUTE_MODES \ TC_MODES

\* C16: a compute mode other than FP16TC, FP16TCEC, TF32TC and TF32TCEC is
\* caught before signature derivation: such a call looks up no table slot, so
\* it selects no stage and launches nothing
C16_Original ==
  UnsupportedModeCall =>
    /\ call.log.launches = <<>>
    /\ call.log.used_kernel_modeule_id = "unwritten"

\* a call with CUMPSGEMM_CUBLAS went through gen_module_code and the table:
\* it reported a stage, launched the element found at that code and returned
\* success
C16_Witness ==
  /\ UnsupportedModeCall
  /\ handle_state = "Active"
  /\ call.fn = "gemm"
  /\ call.compute_mode = "CUMPSGEMM_CUBLAS"
  /\ call.out_given
  /\ call.log.used_kernel_modeule_id \in Stages
  /\ Len(call.log.launches) = 1
  /\ call.log.launches[1].gemm_module
       = ModuleAt(handle.gemm_module,
                  gen_module_code(call.T, call.op_A, call.op_B, call.compute_mode),
                  call.log.used_kernel_modeule_id)
  /\ call.status = "CUBLAS_STATUS_SUCCESS"

\* the last call is a cuMpSGEMM_create whose allocation failed
FailedCreate == call.fn = "cuMpSGEMM_create"

\* C17: an allocation failure in cuMpSGEMM_create is surfaced as a
\* non-success status and no partial handle is returned: the call returns an
\* error status, no module has been registered and the caller's handle is null
C17_Original ==
  (FailedCreate /\ handle_state = "Uninitialized") =>
    /\ call.status \notin {"none", "CUBLAS_STATUS_SUCCESS"}
    /\ call.handle_out = "nullptr"
    /\ handle = NoHandle

\* the allocation failed by std::bad_alloc: no status came back and the
\* caller's handle was not assigned
C17_Witness ==
  /\ FailedCreate
  /\ handle_state = "Uninitialized"
  /\ call.raised = "std::bad_alloc"
  /\ call.status = "none"
  /\ call.handle_out = "unassigned"

\* the steps the lifecycle allows: the handle state stays or moves one stage
\* forward, nothing changes once the handle is destroyed, and whatever touches
\* the handle or issues a dispatch call does so on an Active handle
LifecycleStep ==
  /\ <<handle_state, handle_state'>> \in
       { <<"Uninitialized", "Uninitialized">>, <<"Uninitialized", "Active">>,
         <<"Active", "Active">>, <<"Active", "Destroyed">> }
  /\ ncalls' # ncalls =>
       /\ handle_state = "Active" /\ handle_state' = "Active"
       /\ call'.fn \in {"gemm", "gemm_stridedBatch"}
  /\ (handle' # handle /\ handle_state' = handle_state) => handle_state = "Active"
  /\ handle_state' = "Destroyed" => (handle' = NoHandle /\ UNCHANGED <<call, ncalls>>)

SharedByThreads ==
  \E t \in Threads, u \in Threads :
    /\ t # u
    /\ \/ call.launched[t] # None /\ call.launched[t] = call.launched[u]
       \/ call.downloaded[t] # None /\ call.downloaded[t] = call.downloaded[u]
       \/ call.zeroed[t] # None /\ call.zeroed[t] = call.launched[u]

\* C19: when every call's advance / zero / launch / download sequence runs as
\* a critical section, no two threads' calls use the same statistics slot and
\* each call downloads the slot it launched on. (Without serialisation a state
\* where both calls launch on the same slot is reachable: C19_Witness.)
C19_CriticalSection ==
  (call.fn = "threads" /\ call.serialized) =>
    /\ ~SharedByThreads
    /\ \A t \in Threads :
         call.downloaded[t] # None => call.downloaded[t] = call.launched[t]

\* without serialisation both calls have returned and both launched on, and
\* downloaded, the same slot
C19_Witness ==
  /\ call.fn = "threads"
  /\ ~call.serialized
  /\ \A t \in Threads : call.pc[t] = "done"
  /\ call.launched[1] = call.launched[2]
  /\ call.downloaded[1] = call.downloaded[2]

\* the operations of the latest call still on the stream, in stream order
CurOps(stream) == SelectSeq(stream, LAMBDA o : o.cur)

\* the device operations the last call issued, in the order the host issued
\* them up to its i-th launch: the zeroing first, then every launch followed
\* by its download
RECURSIVE IssuedUpTo(_)
IssuedUpTo(i) ==
  IF i = 0
  THEN [j \in DOMAIN call.log.inits |->
          [op |-> "init_counter", buffer_id |-> call.log.inits[j], cur |-> TRUE]]
  ELSE IssuedUpTo(i - 1)
         \o <<KernelOp(call.log.launches[i])>>
         \o (IF i \in DOMAIN call.log.downloads
             THEN <<[op |-> "download", buffer_id |-> call.log.downloads[i], cur |-> TRUE]>>
             ELSE <<>>)

\* s is what is left of t after some of its first elements were removed
IsSuffix(s, t) ==
  /\ Len(s) <= Len(t)
  /\ s = SubSeq(t, Len(t) - Len(s) + 1, Len(t))

\* C20: the device work issued through the handle sits on its one stream in
\* the order the host issued it: the work of earlier calls is ahead of the
\* work of the latest call, the work of the latest call is in issue order
\* (zeroing, launch, download), and the sub-launches of a decomposed batch are
\* in batch-index order 0 .. batch_count-1
C20_IssueOrder ==
  handle_state = "Active" =>
    /\ \A i \in DOMAIN handle.cuda_stream : \A j \in DOMAIN handle.cuda_stream :
         (i < j /\ handle.cuda_stream[i].cur) => handle.cuda_stream[j].cur
    /\ call.fn \in {"gemm", "gemm_stridedBatch"} =>
         IsSuffix(CurOps(handle.cuda_stream), IssuedUpTo(Len(call.log.launches)))
    /\ (call.fn = "gemm_stridedBatch" /\ is_large_problem(call.m, call.n)) =>
         /\ Len(call.log.launches) = call.batch_count
         /\ \A i \in DOMAIN call.log.launches :
              /\ call.log.launches[i].a_ptr = (i - 1) * call.stridea
              /\ call.log.launches[i].b_ptr = (i - 1) * call.strideb
              /\ call.log.launches[i].c_ptr = (i - 1) * call.stridec

\* the kernel of an earlier call is still at the head of the stream, and
\* behind it a decomposed batch has put its zeroing and then the kernels of
\* item 0 and item 1, each followed by its download
C20_Witness ==
  /\ handle_state = "Active"
  /\ call.fn = "gemm_stridedBatch" /\ is_large_problem(call.m, call.n)
  /\ call.batch_count >= 2
  /\ Len(handle.cuda_stream) >= 6
  /\ handle.cuda_stream[1].op = "kernel" /\ ~handle.cuda_stream[1].cur
  /\ handle.cuda_stream[2].op = "init_counter" /\ handle.cuda_stream[2].cur
  /\ handle.cuda_stream[3].op = "kernel" /\ handle.cuda_stream[3].c_ptr = 0
  /\ handle.cuda_stream[4].op = "download"
  /\ handle.cuda_stream[5].op = "kernel" /\ handle.cuda_stream[5].c_ptr = call.stridec
  /\ handle.cuda_stream[6].op = "download"

\* the codes some registration has written in a table
RegisteredCodes(module_list) ==
  {code \in DOMAIN module_list : \E stage \in Stages : module_list[code][stage] # UnsetModule}

\* the stage list of a table row goes from small tile to large tile, and so a
\* later stage never needs more blocks for a shape than an earlier one
StagesOrdered(module_list) ==
  \A code \in RegisteredCodes(module_list) :
    /\ \A stage \in Stages : module_list[code][stage] # UnsetModule
    /\ SmallToLarge(CandidateList(module_list, code), num_kernel_candidates)
    /\ \A shape \in Shapes : \A i \in 0 .. (num_kernel_candidates - 2) :
         gemm_grid_size(module_list[code][i], shape[1], shape[2])
           >= gemm_grid_size(module_list[code][i + 1], shape[1], shape[2])

\* C21: for every registered signature in both tables the stage list is
\* ordered from smallest tile to largest: tile_rows * tile_cols of stage i is
\* no larger than that of stage i+1, so stage 0 gives the most blocks and the
\* last stage the fewest
C21_StagesOrdered ==
  handle_state = "Active" =>
    /\ StagesOrdered(handle.gemm_module)
    /\ StagesOrdered(handle.gemm_stridedBatch_module)

\* both tables are populated and a call has launched the stage-0 kernel of a
\* registered signature
C21_Witness ==
  /\ handle_state = "Active"
  /\ RegisteredCodes(handle.gemm_module) # {}
  /\ RegisteredCodes(handle.gemm_stridedBatch_module) # {}
  /\ call.fn = "gemm" /\ call.out_given
  /\ call.log.used_kernel_modeule_id = 0
  /\ Len(call.log.launches) = 1
  /\ call.log.launches[1].gemm_module # UnsetModule

\* each global holds the value last given to its setter, or its default: no
\* setter has touched a scalar that is not its own
GlobalsAgree ==
  /\ handle.global_lose_ratio_threshold = call.given.lose_ratio_threshold
  /\ (handle.global_auto_kernel_selection_enabled # 0) = call.given.auto_kernel_selection
  /\ handle.global_cublas_dim_mn_threshold = call.given.cublas_dim_mn_threshold
  /\ handle.global_cublas_dim_k_threshold = call.given.cublas_dim_k_threshold

\* the three getters other than get_global_lose_ratio_threshold return the
\* value last given, or the default
OtherGettersExact ==
  ("given" \in DOMAIN call) =>
    /\ GlobalsAgree
    /\ call.fn = "is_auto_kernel_selection_enabled" =>
         call.ret = call.given.auto_kernel_selection
    /\ call.fn = "get_global_cublas_dim_mn_threshold" =>
         call.ret = call.given.cublas_dim_mn_threshold
    /\ call.fn = "get_global_cublas_dim_k_threshold" =>
         call.ret = call.given.cublas_dim_k_threshold

\* C22: each getter of the four global scalars returns the value most recently
\* given to its setter, or the default (0.1, 128, 64, disabled) if none was
\* given, and each setter changes its own scalar only
C22_Original ==
  ("given" \in DOMAIN call) =>
    /\ OtherGettersExact
    /\ call.fn = "get_global_lose_ratio_threshold" =>
         call.ret = call.given.lose_ratio_threshold

\* with the default 0.1 in place, get_global_lose_ratio_threshold has
\* returned the float nearest to 0.1, which is another number
C22_Witness ==
  /\ "given" \in DOMAIN call
  /\ call.fn = "get_global_lose_ratio_threshold"
  /\ call.given.lose_ratio_threshold = DOUBLE_0_1
  /\ call.ret = [exp |-> -4, hi |-> 13421773, lo |-> 0]
  /\ call.ret # call.given.lose_ratio_threshold

\* the sum of component c over a list of pairs
RECURSIVE SumOf(_, _)
SumOf(l, c) == IF l = <<>> THEN 0 ELSE l[1][c] + SumOf(Tail(l), c)

\* the fraction q is the quotient flagged / total for total > 0 and is 0 for
\* total = 0; its denominator is never 0 and it lies in [0, 1]
IsRatioOf(q, flagged, total) ==
  /\ q[2] > 0
  /\ total > 0 => q[1] * total = flagged * q[2]
  /\ total = 0 => q[1] = 0
  /\ flagged <= total => (0 <= q[1] /\ q[1] <= q[2])

\* C23: get_lose_ratio returns flagged/total of the slot when total > 0 and 0
\* when total = 0, never dividing by zero, and the result lies in [0, 1] when
\* flagged <= total; get_lost_rate does the same over the sums of flagged and
\* of total across the recorded slots
C23_LoseRatio ==
  (call.fn = "lose_ratio" /\ call.applied) =>
    /\ IsRatioOf(call.lose_ratio, call.r[1], call.r[2])
    /\ IsRatioOf(call.lost_rate, SumOf(call.l, 1), SumOf(call.l, 2))

\* a slot nothing was counted into gave 0, and a list whose totals add up to a
\* positive number gave a ratio strictly between 0 and 1
C23_Witness ==
  /\ call.fn = "lose_ratio" /\ call.applied
  /\ call.r = <<0, 0>> /\ call.lose_ratio = <<0, 1>>
  /\ Len(call.l) = 2 /\ call.l[1] = <<0, 0>>
  /\ call.lost_rate[1] > 0 /\ call.lost_rate[1] < call.lost_rate[2]

\* what a single statistics gemm call puts on the stream, in order: the
\* zeroing of the slot after the one current on entry, its one kernel, the
\* download of that slot
GemmStatsSequence ==
  << [op |-> "init_counter", buffer_id |-> SlotAfterOneAdvance, cur |-> TRUE],
     KernelOp(call.log.launches[1]),
     [op |-> "download", buffer_id |-> SlotAfterOneAdvance, cur |-> TRUE] >>

\* C24: a non-batched gemm call with statistics enabled and suppression clear
\* advances the cursor, zeroes the slot it advanced to, launches exactly one
\* kernel with that slot's counter pointers and queues the download of that
\* same slot, in this order; the slot read before the launch is the slot
\* downloaded, and the ring keeps the storage it had
C24_StepOrder ==
  (StatsGemmCall /\ handle_state = "Active") =>
    /\ call.log.advances = 1
    /\ call.log.inits = <<SlotAfterOneAdvance>>
    /\ Len(call.log.launches) = 1
    /\ ~call.log.launches[1].batched
    /\ call.log.launches[1].total_counter = CounterPtr(SlotAfterOneAdvance)
    /\ call.log.launches[1].lost_counter = CounterPtr(SlotAfterOneAdvance)
    /\ call.log.downloads = call.log.inits
    /\ IsSuffix(CurOps(handle.cuda_stream), GemmStatsSequence)
    /\ DOMAIN handle.dev_total_counter_buffer = RingIds
    /\ DOMAIN handle.dev_lost_counter_buffer = RingIds
    /\ DOMAIN handle.host_total_counter_buffer = RingIds
    /\ DOMAIN handle.host_lost_counter_buffer = RingIds

\* the call has just returned with the cursor wrapped to slot 0: its zeroing,
\* its kernel and its download are all still on the stream, in that order
C24_Witness ==
  /\ StatsGemmCall /\ handle_state = "Active"
  /\ call.pre.current_buffer_id = RingSize - 1
  /\ CurOps(handle.cuda_stream) = GemmStatsSequence
  /\ handle.cuda_stream[Len(handle.cuda_stream)].buffer_id = 0

\* the last call is a dispatch call entered with statistics disabled
NoStatsCall ==
  /\ call.fn \in {"gemm", "gemm_stridedBatch"}
  /\ ~call.pre.exp_stats_enabled

\* what a call with statistics disabled has done: null counter pointers in
\* every launch, no advance, no zeroing, no download, only kernels on the stream
NoStatsLog ==
  /\ \A i \in DOMAIN call.log.launches :
       /\ call.log.launches[i].total_counter = NULLPTR
       /\ call.log.launches[i].lost_counter = NULLPTR
  /\ call.log.advances = 0
  /\ call.log.inits = <<>>
  /\ call.log.downloads = <<>>
  /\ handle_state = "Active" =>
       \A i \in DOMAIN handle.cuda_stream :
         handle.cuda_stream[i].cur =>
           /\ handle.cuda_stream[i].op = "kernel"
           /\ handle.cuda_stream[i].total_counter = NULLPTR
           /\ handle.cuda_stream[i].lost_counter = NULLPTR

\* the ring cursor and the four counter arrays are the same after the step
RingUnchanged ==
  /\ handle'.current_buffer_id = handle.current_buffer_id
  /\ handle'.dev_total_counter_buffer = handle.dev_total_counter_buffer
  /\ handle'.dev_lost_counter_buffer = handle.dev_lost_counter_buffer
  /\ handle'.host_total_counter_buffer = handle.host_total_counter_buffer
  /\ handle'.host_lost_counter_buffer = handle.host_lost_counter_buffer

\* a step that is a dispatch call with statistics disabled, or the device
\* running a kernel such a call launched, leaves the ring as it was
NoStatsStep ==
  /\ (ncalls' # ncalls /\ ~handle.exp_stats_enabled) => RingUnchanged
  /\ ( /\ NoStatsCall /\ handle_state = "Active" /\ handle_state' = "Active"
       /\ ncalls' = ncalls
       /\ handle.cuda_stream # <<>>
       /\ handle'.cuda_stream = Tail(handle.cuda_stream)
       /\ Head(handle.cuda_stream).cur ) => RingUnchanged

\* C25: with statistics disabled, gemm and gemm_stridedBatch (decomposed or
\* single-launch) hand null counter pointers to every launch, issue no zeroing
\* and no download, and leave the ring cursor and every statistics slot as
\* they were, both when the call is made and when its kernels run
C25_DisabledFrame ==
  /\ [](NoStatsCall => NoStatsLog)
  /\ [][NoStatsStep]_vars

\* after earlier statistics calls left counts in the ring, a decomposed batch
\* made with statistics disabled has run to completion
C25_Witness ==
  /\ NoStatsCall /\ Completed
  /\ call.fn = "gemm_stridedBatch" /\ is_large_problem(call.m, call.n)
  /\ Len(call.log.launches) >= 2
  /\ \E id \in RingIds : handle.dev_total_counter_buffer[id] > 0

\* the last call is a decomposed batch entered with statistics enabled
DecomposedBatchReturned ==
  /\ call.fn = "gemm_stridedBatch"
  /\ is_large_problem(call.m, call.n)
  /\ call.pre.exp_stats_enabled
  /\ handle_state = "Active"

\* the step is a call of gemm made with statistics enabled right after a
\* decomposed batch returned
GemmAfterDecomposedBatch ==
  /\ DecomposedBatchReturned
  /\ handle.exp_stats_enabled
  /\ ncalls' # ncalls
  /\ call'.fn = "gemm"

\* such a gemm call advances the cursor once from where the batch left it and
\* zeroes the slot it reaches
FreshSlotStep ==
  GemmAfterDecomposedBatch =>
    /\ call'.log.advances = 1
    /\ handle'.current_buffer_id = (handle.current_buffer_id + 1) % RingSize
    /\ call'.log.inits = << handle'.current_buffer_id >>
    /\ call'.log.launches[1].total_counter = CounterPtr(handle'.current_buffer_id)

\* C26: counter_init_disabled is false whenever a public call has returned, in
\* particular after a decomposed batch of any batch_count (0 and 1 included),
\* so the gemm call that follows with statistics enabled advances to a fresh
\* slot and zeroes it
C26_FlagCleared ==
  /\ [](handle_state = "Active" => ~handle.counter_init_disabled)
  /\ [][FreshSlotStep]_vars

\* a decomposed batch of one item has returned with statistics enabled, its
\* one sub-call advanced the cursor, and another call can follow
C26_Witness ==
  /\ DecomposedBatchReturned
  /\ call.batch_count = 1
  /\ call.log.advances = 1
  /\ ~handle.counter_init_disabled
  /\ handle.exp_stats_enabled
  /\ ncalls < MaxCalls

\* base addresses of A, B and C the decomposition is examined with
BasePointers == { <<0, 0, 0>>, <<1024, 2048, 4096>> }

\* shapes above the decomposition cutoff
LargeShapes == { shape \in Shapes : is_large_problem(shape[1], shape[2]) }

\* the launch a direct call of gemm makes for item i of the batch
ItemLaunch(sig, shape, base, i) ==
  gemm([h |-> Earlier(handle), log |-> EmptyLog], sig[1], sig[2], sig[3],
       shape[1], shape[2], KDim,
       base[1] + i * shape[1] * KDim, base[2] + i * KDim * shape[2], base[3] + i * shape[1] * shape[2],
       sig[4], FALSE, 0).log.launches

\* the launches of a decomposed batch of batch_count items at the given bases
BatchLaunches(sig, shape, base, batch_count) ==
  gemm_stridedBatch([h |-> Earlier(handle), log |-> EmptyLog], sig[1], sig[2], sig[3],
                    shape[1], shape[2], KDim,
                    base[1], shape[1] * KDim, base[2], KDim * shape[2], base[3], shape[1] * shape[2],
                    batch_count, sig[4], FALSE, 0).log.launches

\* launch i + 1 of the batch is the one launch of gemm for item i
ItemsInOrder(sig, shape, base, batch_count) ==
  \A ls \in {BatchLaunches(sig, shape, base, batch_count)} :
    /\ Len(ls) = batch_count
    /\ \A i \in 0 .. batch_count - 1 :
         /\ ls[i + 1].a_ptr = base[1] + i * shape[1] * KDim
         /\ ls[i + 1].b_ptr = base[2] + i * KDim * shape[2]
         /\ ls[i + 1].c_ptr = base[3] + i * shape[1] * shape[2]
         /\ <<ls[i + 1]>> = ItemLaunch(sig, shape, base, i)

\* C27: a decomposed batch issues, for i = 0 .. batch_count-1 in that order,
\* the non-batched call on A + i*stridea, B + i*strideb, C + i*stridec with the
\* m, n, k, operations and compute mode of the batched call: launch i is the
\* launch gemm makes for those arguments, and there are batch_count launches
C27_SubCalls ==
  handle_state = "Active" =>
    /\ \A sig \in CallSignatures, shape \in LargeShapes, base \in BasePointers :
         \A batch_count \in 0 .. MaxBatch : ItemsInOrder(sig, shape, base, batch_count)
    /\ (call.fn = "gemm_stridedBatch" /\ is_large_problem(call.m, call.n)) =>
         /\ Len(call.log.launches) = call.batch_count
         /\ \A i \in DOMAIN call.log.launches :
              /\ ~call.log.launches[i].batched
              /\ call.log.launches[i].m = call.m
              /\ call.log.launches[i].n = call.n
              /\ call.log.launches[i].k = call.k
              /\ call.log.launches[i].c_ptr = (i - 1) * call.stridec

\* a decomposed batch of the largest length has returned, its launches on
\* distinct items
C27_Witness ==
  /\ handle_state = "Active"
  /\ call.fn = "gemm_stridedBatch" /\ is_large_problem(call.m, call.n)
  /\ call.batch_count = MaxBatch
  /\ Len(call.log.launches) = MaxBatch
  /\ call.log.launches[1].a_ptr # call.log.launches[MaxBatch].a_ptr

\* a step taken on a live handle leaves both descriptor tables as they were
TablesKept ==
  (handle_state = "Active" /\ handle_state' = "Active") =>
    /\ handle'.gemm_module = handle.gemm_module
    /\ handle'.gemm_stridedBatch_module = handle.gemm_stridedBatch_module
    /\ handle'.num_kernel_candidates = handle.num_kernel_candidates

\* C28: the Module Descriptor Tables are read-only after construction: no
\* gemm or gemm_stridedBatch call, no statistics operation and no step of the
\* device writes handle->gemm_module or handle->gemm_stridedBatch_module, so
\* every candidate list and its order stay what cuMpSGEMM_create left
C28_TablesReadOnly == [][TablesKept]_vars

\* after the largest number of calls, the last of them a batch made with
\* statistics enabled whose device work has all run, the handle still holds
\* two registered tables
C28_Witness ==
  /\ handle_state = "Active"
  /\ ncalls = MaxCalls
  /\ call.fn = "gemm_stridedBatch" /\ call.pre.exp_stats_enabled /\ call.batch_count >= 1
  /\ handle.cuda_stream = <<>>
  /\ DOMAIN handle.gemm_module # {}
  /\ handle.gemm_module # handle.gemm_stridedBatch_module

\* the least q with q * d >= x
Ceil(x, d) == CHOOSE q \in 0 .. x : q * d >= x /\ (q - 1) * d < x

\* both launches have been computed for one variant and shape
GridsComputed == call.fn = "launch_kernel" /\ call.applied

\* C29 as stated: for every m, n >= 1 and every variant the blocks-per-item
\* count of the strided-batch launch equals the grid of the non-batched launch
\* for the same shape, ceil(m / tile_rows) * ceil(n / tile_cols), and the
\* batched grid is that count times batch_count
C29_Original ==
  GridsComputed =>
    /\ call.launch.grid_size
         = Ceil(call.m, call.gemm_module.smem_m) * Ceil(call.n, call.gemm_module.smem_n)
    /\ call.num_blocks_per_gemm = call.launch.grid_size
    /\ call.batched.grid_size = call.num_blocks_per_gemm * call.batch_count

\* for a shape of more than one row of tiles the blocks-per-item count has
\* come out larger than the non-batched grid, and the batched grid with it
C29_Witness ==
  /\ GridsComputed
  /\ call.m > call.gemm_module.smem_m
  /\ call.num_blocks_per_gemm > call.launch.grid_size
  /\ call.batch_count >= 1
  /\ call.batched.grid_size > call.launch.grid_size * call.batch_count

\* what does hold of the two grids: the non-batched grid is the product of the
\* ceilings, the batched grid is the blocks-per-item count times batch_count,
\* the blocks-per-item count is never below the non-batched grid, and the two
\* agree whenever the shape needs a single row of tiles
GridsWhereEqual ==
  GridsComputed =>
    /\ call.launch.grid_size
         = Ceil(call.m, call.gemm_module.smem_m) * Ceil(call.n, call.gemm_module.smem_n)
    /\ call.batched.grid_size = call.num_blocks_per_gemm * call.batch_count
    /\ call.num_blocks_per_gemm >= call.launch.grid_size
    /\ (call.m <= call.gemm_module.smem_m) =>
         call.num_blocks_per_gemm = call.launch.grid_size

\* a dispatch function has been applied to a handle with statistics enabled
EntryApplied == call.applied /\ call.pre.exp_stats_enabled

\* the slot one advance leads to from the cursor the call found
EntryNextSlot == (call.pre.current_buffer_id + 1) % RingSize

\* C30: with statistics enabled the single-launch path of gemm_stridedBatch
\* advances the cursor once and zeroes one slot whether counter_init_disabled
\* is set or clear on entry, and leaves the flag as it found it; gemm advances
\* and zeroes only when the flag is clear, and leaves the flag alone too
C30_BatchedIgnoresFlag ==
  EntryApplied =>
    /\ (call.fn = "gemm_stridedBatch" /\ ~is_large_problem(call.m, call.n)) =>
         /\ call.log.advances = 1
         /\ call.log.inits = << EntryNextSlot >>
         /\ handle.current_buffer_id = EntryNextSlot
         /\ Len(call.log.launches) = 1
         /\ call.log.launches[1].total_counter = CounterPtr(EntryNextSlot)
         /\ handle.counter_init_disabled = call.pre.counter_init_disabled
    /\ call.fn = "gemm" =>
         /\ call.log.advances = (IF call.pre.counter_init_disabled THEN 0 ELSE 1)
         /\ call.log.inits = (IF call.pre.counter_init_disabled THEN <<>> ELSE << EntryNextSlot >>)
         /\ handle.current_buffer_id
              = (IF call.pre.counter_init_disabled THEN call.pre.current_buffer_id ELSE EntryNextSlot)
         /\ handle.counter_init_disabled = call.pre.counter_init_disabled

\* the single-launch path was entered with the flag set and still advanced
\* and zeroed once
C30_Witness ==
  /\ EntryApplied
  /\ call.fn = "gemm_stridedBatch" /\ ~is_large_problem(call.m, call.n)
  /\ call.batch_count >= 1
  /\ call.pre.counter_init_disabled
  /\ handle.counter_init_disabled
  /\ call.log.advances = 1
  /\ Len(call.log.inits) = 1
=============================================================================
